---- MODULE Spec2Model ----
(***************************************************************************)
(* Model of the simulation core of auto-stock-backtest2:                   *)
(*   - Portfolio (the ledger) of src/backtest_engine.py,                   *)
(*   - the sequential BacktestEngine run (run_backtest, _execute_backtest, *)
(*     _process_date and its exit and entry passes, position sizing),      *)
(*   - the parallel run (run_backtest_parallel, the per-symbol tasks, the  *)
(*     merge and _reconstruct_equity_curve) and _calculate_results,        *)
(*   - WFOptimizer of src/wfo_optimizer.py (_split_periods, the parameter  *)
(*     search and its score, run_wfo, _summarize_wfo_results).             *)
(*                                                                         *)
(* Arithmetic.  Quantities are integers.  Prices, cash and profit are      *)
(* Python floats in the source; the model computes them exactly: close     *)
(* prices are integers (price ticks), cash stays an integer because it     *)
(* only moves by quantity * close, and the averaged price of a position    *)
(* and everything derived from it is an exact rational [n, d] in lowest    *)
(* terms.  Dates are day numbers.                                          *)
(***************************************************************************)
EXTENDS Integers, Sequences, FiniteSets, TLC

VARIABLES
    portfolio,      \* the Portfolio object (BacktestEngine.portfolio in a run)
    ncalls,         \* number of Portfolio methods called so far (ledger driver)
    last,           \* the last Portfolio call: method, arguments, returned value
    sumOpens,       \* history: sum of quantity * price over add_position calls
    lots,           \* history: per symbol, additions since the last full close
    strategy,       \* BacktestEngine.strategy
    pc,             \* position of the engine inside run_backtest
    today,          \* the date _process_date is working on (0: none yet)
    ndates,         \* timeline dates processed so far, over all runs
    rows,           \* all_data at today: symbol -> row (Unread: not read yet)
    latest,         \* all_data: per symbol the row data.iloc[-1] (Unread: not yet)
    exit_keys,      \* list(self.portfolio.positions.keys()) of the exit pass
    idx,            \* loop index of the running exit or entry pass
    runs,           \* number of run_backtest calls started on this engine
    fresh_at_start, \* history: was the ledger fresh when the current run began
    result,         \* the dictionary the last finished run returned
    processed_data, \* run_backtest_parallel: symbol -> data of the valid symbols
    future_to_symbol, \* run_backtest_parallel: symbols whose future is not yielded yet
    all_trades,     \* run_backtest_parallel: the merged trade list
    failed,         \* history: symbols whose task failed
    split_args,     \* run_wfo: start, end, train_period, test_period, step_size
    current_start,  \* _split_periods: current_start
    periods,        \* _split_periods: periods
    period_i,       \* run_wfo: index of the period being processed
    combo_i,        \* _optimize_parameters: index of the combination being run
    best_params,    \* _optimize_parameters: best_params
    best_score,     \* _optimize_parameters: best_score
    train_results,  \* history: the runs of the optimization in progress
    wfo_results,    \* run_wfo: wfo_results
    summary,        \* run_wfo: summary
    runlog,         \* history: the backtest runs the optimizer started
    trading_rules   \* TRADING_RULES[strategy], the dictionary WFOptimizer.rules names

vars == << portfolio, ncalls, last, sumOpens, lots, strategy, pc, today, ndates,
           rows, latest, exit_keys, idx, runs, fresh_at_start, result,
           processed_data, future_to_symbol, all_trades, failed,
           split_args, current_start, periods, period_i, combo_i, best_params,
           best_score, train_results, wfo_results, summary, runlog, trading_rules >>

ledgerVars == << portfolio, ncalls, last, sumOpens, lots >>
engineVars == << strategy, pc, today, ndates, rows, latest, exit_keys, idx,
                 runs, fresh_at_start >>
seqVars == << today, ndates, rows, latest, exit_keys, idx, runs, fresh_at_start >>
parVars == << processed_data, future_to_symbol, all_trades, failed >>
splitVars == << split_args, current_start, periods >>
wfoVars == << period_i, combo_i, best_params, best_score, train_results,
              wfo_results, summary, runlog, trading_rules >>

----------------------------------------------------------------------------
(* Bounds of the model *)

MaxCalls == 3       \* Portfolio calls in a ledger behaviour
MaxQty == 2         \* quantities passed to the ledger are 1..MaxQty
MinPrice == 20      \* close prices are MinPrice..MaxPrice
MaxPrice == 22
MaxDates == 2       \* timeline dates processed by one engine, over all runs
MaxRuns == 2        \* run_backtest calls on one engine
HighPrice == 200000 \* a close too high for the risk budget to buy one unit
MaxParDates == 3    \* dates in the window of a parallel run
MaxSpan == 6        \* end - start of a split is 0..MaxSpan days
MaxTrain == 2       \* train_period is 1..MaxTrain
MaxTest == 2        \* test_period is 1..MaxTest
MaxStep == 2        \* step_size is -1..MaxStep
MaxPeriods == 6     \* periods of a split that the model records
ExampleSpan == 400  \* end - start of the worked example of a split
MaxPositions == 1   \* rules["max_positions"] (5 and 10 in config.py), scaled
                    \* down to the two symbols of the model

SymbolList == << "A", "B" >>   \* all_data's keys, in dictionary order
Symbols == { SymbolList[i] : i \in 1..Len(SymbolList) }
LedgerSymbols == { "A", "B" }
Prices == MinPrice..MaxPrice
LedgerPrices == { MinPrice, MaxPrice }
Qtys == 1..MaxQty

----------------------------------------------------------------------------
(* Program constants *)

INITIAL_CAPITAL == 10000000
NowDate == 1000000  \* datetime.now(): later than every simulated date
DefaultTrainPeriod == 252   \* run_wfo: train_period
DefaultTestPeriod == 63     \* run_wfo: test_period
DefaultStepSize == 21       \* run_wfo: step_size
MinTrades == 10             \* _calculate_optimization_score: total_trades < 10

----------------------------------------------------------------------------
(* Exact rationals [n, d], d > 0, in lowest terms *)

Abs(x) == IF x < 0 THEN -x ELSE x

RECURSIVE Gcd(_, _)
Gcd(a, b) == IF b = 0 THEN a ELSE Gcd(b, a % b)

Rat(n, d) ==
    LET s == IF d < 0 THEN -1 ELSE 1
        g == Gcd(Abs(n), Abs(d))
    IN  [n |-> (s * n) \div g, d |-> (s * d) \div g]

RInt(k) == [n |-> k, d |-> 1]
RAdd(a, b) == Rat(a.n * b.d + b.n * a.d, a.d * b.d)
RSub(a, b) == Rat(a.n * b.d - b.n * a.d, a.d * b.d)
RMul(a, b) == Rat(a.n * b.n, a.d * b.d)
RDiv(a, b) == Rat(a.n * b.d, a.d * b.n)
\* a/b <= c/d for b, d > 0, by the continued fractions of the two (no product)
RECURSIVE FracLeq(_, _, _, _)
FracLeq(a, b, c, d) ==
    IF a \div b # c \div d
    THEN a \div b < c \div d
    ELSE IF a % b = 0
         THEN TRUE
         ELSE IF c % d = 0
              THEN FALSE
              ELSE FracLeq(d, c % d, b, a % b)

RLeq(a, b) == FracLeq(a.n, a.d, b.n, b.d)

\* TRADING_RULES[strategy] of src/config.py: the keys the engine reads and
\* the nested dictionaries the optimizer writes
TRADING_RULES(strat) ==
    IF strat = "swing_trading"
    THEN [ timeframe         |-> "1d",
           max_holding_days  |-> 30,
           max_positions     |-> MaxPositions,
           risk_per_trade    |-> Rat(15, 1000),
           max_position_size |-> Rat(25, 100),
           entry_conditions  |-> [ rsi_range         |-> << 40, 50 >>,
                                   volume_multiplier |-> Rat(3, 2) ],
           exit_conditions   |-> [ profit_target  |-> Rat(75, 1000),
                                   stop_loss      |-> Rat(5, 100),
                                   partial_profit |-> [ first_target  |-> Rat(5, 100),
                                                        second_target |-> Rat(10, 100) ] ] ]
    ELSE [ timeframe         |-> "1wk",
           max_holding_days  |-> 365 * 2,
           max_positions     |-> MaxPositions,
           risk_per_trade    |-> Rat(15, 1000),
           max_position_size |-> Rat(15, 100),
           entry_conditions  |-> [ above_ma200 |-> TRUE ],
           exit_conditions   |-> [ profit_target |-> Rat(30, 100),
                                   stop_loss     |-> Rat(85, 1000) ] ]

----------------------------------------------------------------------------
(* Portfolio: the ledger (src/backtest_engine.py, class Portfolio) *)

NoPositions == [s \in {} |-> 0]

\* Portfolio.__init__
NewPortfolio(initial_capital) ==
    [ initial_capital |-> initial_capital,
      cash            |-> initial_capital,
      positions       |-> NoPositions,
      pos_keys        |-> << >>,
      trades          |-> << >>,
      equity_curve    |-> << initial_capital >>,
      dates           |-> << NowDate >> ]

\* variant: the plain mean of the old and the new price
avg_price_unweighted(pos, quantity, price) ==
    RDiv(RAdd(pos.price, RInt(price)), RInt(2))

\* the averaged price of an existing position after an addition
avg_price(pos, quantity, price) ==
    RDiv(RAdd(RMul(RInt(pos.quantity), pos.price), RInt(quantity * price)),
         RInt(pos.quantity + quantity))

\* Portfolio.add_position
add_position(pf, symbol, quantity, price, date, strat, reason) ==
    LET positions ==
            IF symbol \in DOMAIN pf.positions
            THEN [pf.positions EXCEPT
                    ![symbol].quantity = pf.positions[symbol].quantity + quantity,
                    ![symbol].price = avg_price(pf.positions[symbol], quantity, price)]
            ELSE [s \in DOMAIN pf.positions \cup {symbol} |->
                    IF s = symbol
                    THEN [ quantity     |-> quantity,
                           price        |-> RInt(price),
                           entry_date   |-> date,
                           strategy     |-> strat,
                           entry_reason |-> reason ]
                    ELSE pf.positions[s]]
        keys ==
            IF symbol \in DOMAIN pf.positions
            THEN pf.pos_keys
            ELSE Append(pf.pos_keys, symbol)
    IN  [pf EXCEPT !.positions = positions,
                   !.pos_keys = keys,
                   !.cash = pf.cash - quantity * price]

\* variant: profit_loss always taken over the whole position
MakeTrade_whole_pl(pos, symbol, closed, price, date, reason) ==
    [ symbol          |-> symbol,
      entry_date      |-> pos.entry_date,
      exit_date       |-> date,
      entry_price     |-> pos.price,
      exit_price      |-> price,
      quantity        |-> closed,
      trade_type      |-> "sell",
      strategy        |-> pos.strategy,
      entry_reason    |-> pos.entry_reason,
      exit_reason     |-> reason,
      profit_loss     |-> RMul(RSub(RInt(price), pos.price), RInt(pos.quantity)),
      profit_loss_pct |-> RDiv(RSub(RInt(price), pos.price), pos.price),
      holding_days    |-> date - pos.entry_date ]

\* the Trade close_position builds for `closed` units of the position
MakeTrade(pos, symbol, closed, price, date, reason) ==
    [ symbol          |-> symbol,
      entry_date      |-> pos.entry_date,
      exit_date       |-> date,
      entry_price     |-> pos.price,
      exit_price      |-> price,
      quantity        |-> closed,
      trade_type      |-> "sell",
      strategy        |-> pos.strategy,
      entry_reason    |-> pos.entry_reason,
      exit_reason     |-> reason,
      profit_loss     |-> RMul(RSub(RInt(price), pos.price), RInt(closed)),
      profit_loss_pct |-> RDiv(RSub(RInt(price), pos.price), pos.price),
      holding_days    |-> date - pos.entry_date ]

\* a returned value: None, or << t >> for a Trade t
None == << >>

\* Portfolio.close_position: the value returned
close_result(pf, symbol, quantity, price, date, reason) ==
    IF symbol \notin DOMAIN pf.positions
    THEN None
    ELSE LET pos == pf.positions[symbol]
         IN  IF quantity >= pos.quantity
             THEN << MakeTrade(pos, symbol, pos.quantity, price, date, reason) >>
             ELSE << MakeTrade(pos, symbol, quantity, price, date, reason) >>

\* variant: a full close credits the requested quantity, not the held one
close_position_credit_requested(pf, symbol, quantity, price, date, reason) ==
    IF symbol \notin DOMAIN pf.positions
    THEN pf
    ELSE LET pos == pf.positions[symbol]
             trade == close_result(pf, symbol, quantity, price, date, reason)[1]
         IN  IF quantity >= pos.quantity
             THEN [pf EXCEPT
                     !.cash = pf.cash + quantity * price,
                     !.positions = [s \in DOMAIN pf.positions \ {symbol} |->
                                      pf.positions[s]],
                     !.pos_keys = SelectSeq(pf.pos_keys, LAMBDA k : k # symbol),
                     !.trades = Append(pf.trades, trade)]
             ELSE [pf EXCEPT
                     !.positions[symbol].quantity = pos.quantity - quantity,
                     !.cash = pf.cash + quantity * price,
                     !.trades = Append(pf.trades, trade)]

\* variant: closing exactly the held quantity takes the partial branch
close_position_strict(pf, symbol, quantity, price, date, reason) ==
    IF symbol \notin DOMAIN pf.positions
    THEN pf
    ELSE LET pos == pf.positions[symbol]
             trade == close_result(pf, symbol, quantity, price, date, reason)[1]
         IN  IF quantity > pos.quantity
             THEN [pf EXCEPT
                     !.cash = pf.cash + pos.quantity * price,
                     !.positions = [s \in DOMAIN pf.positions \ {symbol} |->
                                      pf.positions[s]],
                     !.pos_keys = SelectSeq(pf.pos_keys, LAMBDA k : k # symbol),
                     !.trades = Append(pf.trades, trade)]
             ELSE [pf EXCEPT
                     !.positions[symbol].quantity = pos.quantity - quantity,
                     !.cash = pf.cash + quantity * price,
                     !.trades = Append(pf.trades, trade)]

\* variant: a close of a symbol that is not held is booked as a sale
close_position_sells_missing(pf, symbol, quantity, price, date, reason) ==
    IF symbol \notin DOMAIN pf.positions
    THEN [pf EXCEPT !.cash = pf.cash + quantity * price]
    ELSE LET pos == pf.positions[symbol]
             trade == close_result(pf, symbol, quantity, price, date, reason)[1]
         IN  IF quantity >= pos.quantity
             THEN [pf EXCEPT
                     !.cash = pf.cash + pos.quantity * price,
                     !.positions = [s \in DOMAIN pf.positions \ {symbol} |->
                                      pf.positions[s]],
                     !.pos_keys = SelectSeq(pf.pos_keys, LAMBDA k : k # symbol),
                     !.trades = Append(pf.trades, trade)]
             ELSE [pf EXCEPT
                     !.positions[symbol].quantity = pos.quantity - quantity,
                     !.cash = pf.cash + quantity * price,
                     !.trades = Append(pf.trades, trade)]

\* Portfolio.close_position: the ledger after the call
close_position(pf, symbol, quantity, price, date, reason) ==
    IF symbol \notin DOMAIN pf.positions
    THEN pf
    ELSE LET pos == pf.positions[symbol]
             trade == close_result(pf, symbol, quantity, price, date, reason)[1]
         IN  IF quantity >= pos.quantity
             THEN [pf EXCEPT
                     !.cash = pf.cash + pos.quantity * price,
                     !.positions = [s \in DOMAIN pf.positions \ {symbol} |->
                                      pf.positions[s]],
                     !.pos_keys = SelectSeq(pf.pos_keys, LAMBDA k : k # symbol),
                     !.trades = Append(pf.trades, trade)]
             ELSE [pf EXCEPT
                     !.positions[symbol].quantity = pos.quantity - quantity,
                     !.cash = pf.cash + quantity * price,
                     !.trades = Append(pf.trades, trade)]

\* Portfolio.get_total_value; prices is a function on the priced symbols
RECURSIVE SumValue(_, _, _)
SumValue(pf, prices, keys) ==
    IF keys = << >>
    THEN 0
    ELSE (IF Head(keys) \in DOMAIN prices
          THEN pf.positions[Head(keys)].quantity * prices[Head(keys)]
          ELSE 0)
         + SumValue(pf, prices, Tail(keys))

get_total_value(pf, prices) == pf.cash + SumValue(pf, prices, pf.pos_keys)

\* Portfolio.update_equity_curve
update_equity_curve(pf, prices, date) ==
    [pf EXCEPT !.equity_curve = Append(pf.equity_curve, get_total_value(pf, prices)),
               !.dates = Append(pf.dates, date)]

----------------------------------------------------------------------------
(* The input data of a run.  A row of all_data[symbol] at a date carries    *)
(* what the engine reads of it: whether the date is in the index, Close,     *)
(* and the value of check_entry_conditions at the date.  The last row of a   *)
(* series (data.iloc[-1]) carries the two indicator flags the exit           *)
(* predicate reads.  An input is fixed by the caller; the model settles it   *)
(* at the step that reads it first (Unread until then).                      *)

Unread == [present |-> FALSE, close |-> -1, entry |-> FALSE]
NoRow == [present |-> FALSE, close |-> 0, entry |-> FALSE]
RowSet == { NoRow } \cup
          { [present |-> TRUE, close |-> p, entry |-> e] : p \in Prices, e \in BOOLEAN }
HighRow == [present |-> TRUE, close |-> HighPrice, entry |-> TRUE]
LatestUnread == [present |-> FALSE, rsi_overbought |-> FALSE, below_ma |-> FALSE]
LatestSet == { [present |-> TRUE, rsi_overbought |-> r, below_ma |-> b] :
                 r \in BOOLEAN, b \in BOOLEAN }

----------------------------------------------------------------------------
(* The dictionary a run returns (BacktestEngine._calculate_results).  A      *)
(* dictionary is a function on its keys, so "error" in results is            *)
(* "error" \in DOMAIN results.  Of the keys of a full result the model       *)
(* leaves out avg_profit, avg_loss and vix_data.                             *)

NotReturned == [pending |-> TRUE]
EmptyDict == [k \in {} |-> 0]
NoTradesError == [error |-> "no trades"]
NoDataError == [error |-> "no data"]

\* (equity_series - rolling_max) / rolling_max, its minimum from point i on
RECURSIVE MinDrawdown(_, _, _, _)
MinDrawdown(curve, i, rolling_max, lowest) ==
    IF i > Len(curve)
    THEN lowest
    ELSE LET top == IF curve[i] > rolling_max THEN curve[i] ELSE rolling_max
             dd == Rat(curve[i] - top, top)
         IN  MinDrawdown(curve, i + 1, top,
                         IF RLeq(dd, lowest) THEN dd ELSE lowest)

\* equity_series.pct_change().dropna()
PctChange(curve) ==
    [i \in 1..(Len(curve) - 1) |-> Rat(curve[i + 1] - curve[i], curve[i])]

\* returns.mean() / returns.std() * sqrt(252) if returns.std() > 0 else 0; the
\* sample deviation is positive when two of at least two returns differ, and
\* the value is then kept as the returns it is computed from
SharpeRatio(curve) ==
    LET returns == PctChange(curve)
    IN  IF \E i, j \in DOMAIN returns : returns[i] # returns[j]
        THEN [of_returns |-> returns]
        ELSE RInt(0)

\* _calculate_results: the dictionary of a ledger that has trades
FullResultOf(pf, strat) ==
    LET total_trades == Len(pf.trades)
        winning_trades == Cardinality({ i \in DOMAIN pf.trades :
                                          pf.trades[i].profit_loss.n > 0 })
        losing_trades == Cardinality({ i \in DOMAIN pf.trades :
                                         pf.trades[i].profit_loss.n < 0 })
        final_equity == pf.equity_curve[Len(pf.equity_curve)]
    IN  [ strategy        |-> strat,
          total_return    |-> Rat(final_equity - pf.initial_capital,
                                  pf.initial_capital),
          total_trades    |-> total_trades,
          winning_trades  |-> winning_trades,
          losing_trades   |-> losing_trades,
          win_rate        |-> Rat(winning_trades, total_trades),
          max_drawdown    |-> MinDrawdown(pf.equity_curve, 1,
                                          pf.equity_curve[1], RInt(0)),
          sharpe_ratio    |-> SharpeRatio(pf.equity_curve),
          final_equity    |-> final_equity,
          initial_capital |-> pf.initial_capital,
          trades          |-> pf.trades,
          equity_curve    |-> [dates |-> pf.dates, values |-> pf.equity_curve] ]

\* variant: a ledger without trades gets a result of zero metrics
calculate_results_zero_metrics(pf, strat) ==
    IF pf.trades = << >>
    THEN [ strategy     |-> strat,
           total_return |-> RInt(0),
           total_trades |-> 0,
           win_rate     |-> RInt(0),
           max_drawdown |-> RInt(0),
           sharpe_ratio |-> RInt(0) ]
    ELSE FullResultOf(pf, strat)

calculate_results(pf, strat) ==
    IF pf.trades = << >> THEN NoTradesError ELSE FullResultOf(pf, strat)

----------------------------------------------------------------------------
(* The ledger driven directly: any sequence of Portfolio calls *)

NoCall == [op |-> "none", symbol |-> "", quantity |-> 0, price |-> 0, ret |-> None]
NoLot == [qty |-> 0, cost |-> 0, partial |-> FALSE, mixed |-> FALSE]
NoPrices == [s \in {} |-> 0]

MinusInf == [n |-> -1, d |-> 0]     \* float('-inf')
NoArgs == [start |-> 0, end |-> 0, train_period |-> 0, test_period |-> 0,
           step_size |-> 0]

ParallelIdle ==
    /\ processed_data = EmptyDict
    /\ future_to_symbol = {}
    /\ all_trades = << >>
    /\ failed = {}

OptimizerIdle ==
    /\ split_args = NoArgs
    /\ current_start = 0
    /\ periods = << >>
    /\ period_i = 0
    /\ combo_i = 0
    /\ best_params = None
    /\ best_score = MinusInf
    /\ train_results = << >>
    /\ wfo_results = << >>
    /\ summary = NotReturned
    /\ runlog = << >>
    /\ trading_rules = TRADING_RULES(strategy)

EngineIdle ==
    /\ strategy = "swing_trading"
    /\ pc = "idle"
    /\ today = 0
    /\ ndates = 0
    /\ rows = [s \in Symbols |-> Unread]
    /\ latest = [s \in Symbols |-> LatestUnread]
    /\ exit_keys = << >>
    /\ idx = 0
    /\ runs = 0
    /\ fresh_at_start = TRUE

Init ==
    /\ portfolio = NewPortfolio(INITIAL_CAPITAL)
    /\ ncalls = 0
    /\ last = NoCall
    /\ sumOpens = 0
    /\ lots = [s \in LedgerSymbols |-> NoLot]
    /\ EngineIdle
    /\ result = NotReturned
    /\ ParallelIdle
    /\ OptimizerIdle

\* history of the additions to symbol's position since it was last fully closed
LotsAfterAdd(symbol, quantity, price) ==
    [lots EXCEPT ![symbol] =
        IF symbol \in DOMAIN portfolio.positions
        THEN [ qty     |-> @.qty + quantity,
               cost    |-> @.cost + quantity * price,
               partial |-> @.partial,
               mixed   |-> @.mixed \/ @.partial ]
        ELSE [ qty |-> quantity, cost |-> quantity * price,
               partial |-> FALSE, mixed |-> FALSE ]]

LotsAfterClose(symbol, quantity) ==
    IF symbol \notin DOMAIN portfolio.positions
    THEN lots
    ELSE IF quantity >= portfolio.positions[symbol].quantity
         THEN [lots EXCEPT ![symbol] = NoLot]
         ELSE [lots EXCEPT ![symbol].partial = TRUE]

AddPosition ==
    /\ ncalls < MaxCalls
    /\ \E symbol \in LedgerSymbols, quantity \in Qtys, price \in LedgerPrices :
        /\ portfolio' = add_position(portfolio, symbol, quantity, price,
                                     ncalls + 1, "swing_trading", "manual")
        /\ last' = [op |-> "add", symbol |-> symbol, quantity |-> quantity,
                    price |-> price, ret |-> None]
        /\ sumOpens' = sumOpens + quantity * price
        /\ lots' = LotsAfterAdd(symbol, quantity, price)
    /\ ncalls' = ncalls + 1
    /\ UNCHANGED engineVars
    /\ UNCHANGED << result, parVars, splitVars, wfoVars >>

ClosePosition ==
    /\ ncalls < MaxCalls
    /\ \E symbol \in LedgerSymbols, quantity \in Qtys, price \in LedgerPrices :
        /\ portfolio' = close_position(portfolio, symbol, quantity, price,
                                       ncalls + 1, "manual")
        /\ last' = [op |-> "close", symbol |-> symbol, quantity |-> quantity,
                    price |-> price,
                    ret |-> close_result(portfolio, symbol, quantity, price,
                                         ncalls + 1, "manual")]
        /\ lots' = LotsAfterClose(symbol, quantity)
    /\ ncalls' = ncalls + 1
    /\ UNCHANGED << sumOpens, engineVars >>
    /\ UNCHANGED << result, parVars, splitVars, wfoVars >>

\* the dictionaries passed to update_equity_curve: empty, or one price for all
PriceDicts == { NoPrices } \cup { [s \in LedgerSymbols |-> p] : p \in LedgerPrices }

UpdateEquityCurve ==
    /\ ncalls < MaxCalls
    /\ \E prices \in PriceDicts :
        portfolio' = update_equity_curve(portfolio, prices, ncalls + 1)
    /\ last' = [NoCall EXCEPT !.op = "equity"]
    /\ ncalls' = ncalls + 1
    /\ UNCHANGED << sumOpens, lots, engineVars >>
    /\ UNCHANGED << result, parVars, splitVars, wfoVars >>

Next == AddPosition \/ ClosePosition \/ UpdateEquityCurve

Spec == Init /\ [][Next]_vars

----------------------------------------------------------------------------
(* Claims about the ledger, checked under Spec *)

RECURSIVE Proceeds(_)
Proceeds(trades) ==
    IF trades = << >>
    THEN 0
    ELSE Head(trades).quantity * Head(trades).exit_price + Proceeds(Tail(trades))

RECURSIVE RealizedPL(_)
RealizedPL(trades) ==
    IF trades = << >>
    THEN RInt(0)
    ELSE RAdd(Head(trades).profit_loss, RealizedPL(Tail(trades)))

RECURSIVE CostBasis(_, _)
CostBasis(pf, keys) ==
    IF keys = << >>
    THEN RInt(0)
    ELSE RAdd(RMul(RInt(pf.positions[Head(keys)].quantity),
                   pf.positions[Head(keys)].price),
              CostBasis(pf, Tail(keys)))

Min(a, b) == IF a <= b THEN a ELSE b

\* the step is one close_position call on a symbol that is / is not held
ClosedHeld == /\ ncalls' = ncalls + 1
              /\ last'.op = "close"
              /\ last'.symbol \in DOMAIN portfolio.positions
ClosedMissing == /\ ncalls' = ncalls + 1
                 /\ last'.op = "close"
                 /\ last'.symbol \notin DOMAIN portfolio.positions

\* C1: cash conservation.  After any sequence of add_position and
\* close_position calls, cash = initial_capital - (sum of quantity * price
\* over the add_position calls) + (sum of closed quantity * price over the
\* Trades close_position returned).
C1_CashConservation ==
    portfolio.cash =
        portfolio.initial_capital - sumOpens + Proceeds(portfolio.trades)

\* both kinds of call have happened, the last one a close clamped to the holding
C1_Witness ==
    /\ sumOpens > 0
    /\ last.op = "close"
    /\ last.ret # None
    /\ last.quantity > last.ret[1].quantity
    /\ portfolio.cash # portfolio.initial_capital

\* C2: ledger reconciliation.  In every reachable state, cash + the sum over
\* the open positions of quantity * average price equals initial_capital +
\* the sum of profit_loss over the Trades recorded so far.
C2_Reconciliation ==
    RAdd(RInt(portfolio.cash), CostBasis(portfolio, portfolio.pos_keys))
        = RAdd(RInt(portfolio.initial_capital), RealizedPL(portfolio.trades))

\* an open position at a fractional average price beside a realized profit or loss
C2_Witness ==
    /\ \E s \in DOMAIN portfolio.positions : portfolio.positions[s].price.d > 1
    /\ portfolio.trades # << >>
    /\ RealizedPL(portfolio.trades) # RInt(0)

\* C3: close_position(symbol, qty, price) on a position of quantity h
\* realizes min(qty, h) units: the appended Trade has quantity min(qty, h),
\* entry_price the stored average price and profit_loss (price - average) *
\* min(qty, h); cash is credited min(qty, h) * price; for qty >= h the
\* position is removed, for qty < h it stays with quantity h - qty and the
\* same average price.
C3_CloseRealizesMin ==
    [][ClosedHeld =>
        LET s == last'.symbol
            pos == portfolio.positions[s]
            h == pos.quantity
            c == Min(last'.quantity, h)
            t == last'.ret[1]
        IN  /\ portfolio'.trades = Append(portfolio.trades, t)
            /\ t.quantity = c
            /\ t.entry_price = pos.price
            /\ t.profit_loss = RMul(RSub(RInt(last'.price), pos.price), RInt(c))
            /\ portfolio'.cash = portfolio.cash + c * last'.price
            /\ last'.quantity >= h => s \notin DOMAIN portfolio'.positions
            /\ last'.quantity < h =>
                /\ s \in DOMAIN portfolio'.positions
                /\ portfolio'.positions[s].quantity = h - last'.quantity
                /\ portfolio'.positions[s].price = pos.price
    ]_vars

\* a partial close of a symbol followed by a close asking for more than is left
C3_Witness ==
    /\ last.op = "close"
    /\ last.ret # None
    /\ last.quantity > last.ret[1].quantity
    /\ Len(portfolio.trades) = 2
    /\ portfolio.trades[1].symbol = portfolio.trades[2].symbol
    /\ portfolio.trades[1].entry_date = portfolio.trades[2].entry_date

\* C4 as claimed: the stored price of every open position is the
\* quantity-weighted mean of all additions since the position was last fully
\* closed (whatever partial closes came in between).
C4_WeightedMeanOfAllAdditions ==
    \A s \in DOMAIN portfolio.positions :
        portfolio.positions[s].price = Rat(lots[s].cost, lots[s].qty)

\* C4 as amended: the stored price is the quantity-weighted mean of all
\* additions since the position was last fully closed as long as no addition
\* followed a partial close of it, and a partial close leaves the stored
\* price unchanged; two additions in a row give quantity q1 + q2 at
\* (q1*p1 + q2*p2) / (q1 + q2).
C4_WeightedMean ==
    /\ [](\A s \in DOMAIN portfolio.positions :
            ~lots[s].mixed =>
                /\ portfolio.positions[s].price = Rat(lots[s].cost, lots[s].qty)
                /\ lots[s].partial \/ portfolio.positions[s].quantity = lots[s].qty)
    /\ [][ClosedHeld /\ last'.quantity < portfolio.positions[last'.symbol].quantity
            => portfolio'.positions[last'.symbol].price
                 = portfolio.positions[last'.symbol].price]_vars

\* two additions at different prices, then a partial close
C4_Witness ==
    \E s \in DOMAIN portfolio.positions :
        /\ lots[s].partial
        /\ ~lots[s].mixed
        /\ portfolio.positions[s].price.d > 1

\* C5: close_position for a symbol with no open position returns None and
\* changes nothing: cash, positions, trades and equity curve stay as they were.
C5_CloseMissingIsNoOp ==
    [][ClosedMissing =>
        /\ last'.ret = None
        /\ portfolio'.cash = portfolio.cash
        /\ portfolio'.positions = portfolio.positions
        /\ portfolio'.trades = portfolio.trades
        /\ portfolio'.equity_curve = portfolio.equity_curve
        /\ portfolio'.dates = portfolio.dates
    ]_vars

\* None was returned while another symbol is held and the curve has grown
C5_Witness ==
    /\ last.op = "close"
    /\ last.ret = None
    /\ portfolio.positions # NoPositions
    /\ Len(portfolio.equity_curve) > 1

----------------------------------------------------------------------------
(* BacktestEngine, sequential mode (src/backtest_engine.py) *)

Strategies == { "swing_trading", "long_term" }

\* int(x) of Python for the rational x: truncation towards zero
PyInt(x) == IF x.n >= 0 THEN x.n \div x.d ELSE -((-x.n) \div x.d)

Min3(a, b, c) == Min(a, Min(b, c))
Max(a, b) == IF a >= b THEN a ELSE b

\* variant: the risk budget counts the open positions at cost
calculate_position_size_equity(pf, strat, price) ==
    LET rules == TRADING_RULES(strat)
        total == RAdd(RInt(pf.cash), CostBasis(pf, pf.pos_keys))
        risk_amount == RMul(total, rules.risk_per_trade)
        max_position_value == RMul(total, rules.max_position_size)
        available_cash == pf.cash
        max_quantity_by_risk == PyInt(RDiv(risk_amount, RInt(price)))
        max_quantity_by_position == PyInt(RDiv(max_position_value, RInt(price)))
        max_quantity_by_cash == PyInt(RDiv(RInt(available_cash), RInt(price)))
        quantity == Min3(max_quantity_by_risk, max_quantity_by_position,
                         max_quantity_by_cash)
    IN  Max(0, quantity)

\* BacktestEngine._calculate_position_size
calculate_position_size(pf, strat, price) ==
    LET rules == TRADING_RULES(strat)
        risk_amount == RMul(RInt(get_total_value(pf, NoPrices)), rules.risk_per_trade)
        max_position_value ==
            RMul(RInt(get_total_value(pf, NoPrices)), rules.max_position_size)
        available_cash == pf.cash
        max_quantity_by_risk == PyInt(RDiv(risk_amount, RInt(price)))
        max_quantity_by_position == PyInt(RDiv(max_position_value, RInt(price)))
        max_quantity_by_cash == PyInt(RDiv(RInt(available_cash), RInt(price)))
        quantity == Min3(max_quantity_by_risk, max_quantity_by_position,
                         max_quantity_by_cash)
    IN  Max(0, quantity)

\* TechnicalIndicators.check_exit_conditions (src/technical_indicators.py);
\* lat is data.iloc[-1]
check_exit_conditions(lat, strat, entry_price, current_price) ==
    LET price_change == RDiv(RSub(RInt(current_price), entry_price), entry_price)
        keep == [exit |-> FALSE, reason |-> "", partial_exit |-> FALSE]
        full(r) == [exit |-> TRUE, reason |-> r, partial_exit |-> FALSE]
    IN  IF strat = "swing_trading"
        THEN IF RLeq(Rat(75, 1000), price_change) THEN full("profit_target")
             ELSE IF RLeq(price_change, Rat(-5, 100)) THEN full("stop_loss")
             ELSE IF lat.rsi_overbought THEN full("rsi_overbought")
             ELSE IF lat.below_ma THEN full("below_ma25")
             ELSE IF RLeq(Rat(5, 100), price_change)
                  THEN [exit |-> FALSE, reason |-> "partial_profit",
                        partial_exit |-> TRUE]
             ELSE keep
        ELSE IF strat = "long_term"
        THEN IF RLeq(Rat(30, 100), price_change) THEN full("profit_target")
             ELSE IF RLeq(price_change, Rat(-85, 1000)) THEN full("stop_loss")
             ELSE IF lat.below_ma THEN full("below_ma200")
             ELSE keep
        ELSE keep

\* does check_exit_conditions get as far as reading data.iloc[-1]
ReadsLatest(strat, entry_price, current_price) ==
    LET price_change == RDiv(RSub(RInt(current_price), entry_price), entry_price)
    IN  IF strat = "swing_trading"
        THEN ~RLeq(Rat(75, 1000), price_change) /\ ~RLeq(price_change, Rat(-5, 100))
        ELSE ~RLeq(Rat(30, 100), price_change) /\ ~RLeq(price_change, Rat(-85, 1000))

\* variant: the holding limit is exceeded only after max_holding_days
exit_decision_late(pos, lat, strat, current_price, date) ==
    LET exit_conditions ==
            check_exit_conditions(lat, strat, pos.price, current_price)
        holding_days == date - pos.entry_date
    IN  IF holding_days > TRADING_RULES(strat).max_holding_days
        THEN [exit_conditions EXCEPT !.exit = TRUE, !.reason = "max_holding_days"]
        ELSE exit_conditions

\* _check_exit_conditions: the predicate's answer with the holding limit applied
exit_decision(pos, lat, strat, current_price, date) ==
    LET exit_conditions ==
            check_exit_conditions(lat, strat, pos.price, current_price)
        holding_days == date - pos.entry_date
    IN  IF holding_days >= TRADING_RULES(strat).max_holding_days
        THEN [exit_conditions EXCEPT !.exit = TRUE, !.reason = "max_holding_days"]
        ELSE exit_conditions

\* variant: the partial exit is booked whatever the halved quantity is
exit_step_unguarded(pf, strat, symbol, row, lat, date) ==
    IF symbol \notin DOMAIN pf.positions \/ ~row.present
    THEN pf
    ELSE LET pos == pf.positions[symbol]
             current_price == row.close
             exit_conditions == exit_decision(pos, lat, strat, current_price, date)
             partial_quantity == pos.quantity \div 2
         IN  IF exit_conditions.exit
             THEN close_position(pf, symbol, pos.quantity, current_price, date,
                                 exit_conditions.reason)
             ELSE IF exit_conditions.partial_exit /\ strat = "swing_trading"
             THEN close_position(pf, symbol, partial_quantity, current_price,
                                 date, "partial_profit")
             ELSE pf

\* _check_exit_conditions: the loop body for one held symbol
exit_step(pf, strat, symbol, row, lat, date) ==
    IF symbol \notin DOMAIN pf.positions \/ ~row.present
    THEN pf
    ELSE LET pos == pf.positions[symbol]
             current_price == row.close
             exit_conditions == exit_decision(pos, lat, strat, current_price, date)
             partial_quantity == pos.quantity \div 2
         IN  IF exit_conditions.exit
             THEN close_position(pf, symbol, pos.quantity, current_price, date,
                                 exit_conditions.reason)
             ELSE IF exit_conditions.partial_exit /\ strat = "swing_trading"
             THEN IF partial_quantity > 0
                  THEN close_position(pf, symbol, partial_quantity, current_price,
                                      date, "partial_profit")
                  ELSE pf
             ELSE pf

\* _check_entry_conditions: the loop body for one symbol of all_data
entry_step(pf, strat, symbol, row, date) ==
    IF symbol \in DOMAIN pf.positions
    THEN pf
    ELSE IF ~row.present
    THEN pf
    ELSE IF row.entry
    THEN LET position_size == calculate_position_size(pf, strat, row.close)
         IN  IF position_size > 0
             THEN add_position(pf, symbol, position_size, row.close, date, strat,
                               "entry_conditions_met")
             ELSE pf
    ELSE pf

\* _process_date: current_prices, from the rows of today
CurrentPrices ==
    [s \in { x \in Symbols : rows[x].present } |-> rows[s].close]

\* variant: entries are evaluated before exits
ProcessDateOrder_entry_first == << "entry", "exit", "equity" >>

\* _process_date: the order of its three calls
ProcessDateOrder == << "exit", "entry", "equity" >>

PhaseAfter(phase) ==
    LET i == CHOOSE k \in 1..Len(ProcessDateOrder) : ProcessDateOrder[k] = phase
    IN  IF i = Len(ProcessDateOrder) THEN "date" ELSE ProcessDateOrder[i + 1]

\* the rows an unread row of symbol may turn out to be when the exit pass
\* reads it; a row that was read already is what it was.  Input restriction
\* of the model: a symbol that is held when a date begins shows no entry
\* signal on that date.
ExitRows(symbol) ==
    IF rows[symbol] # Unread THEN { rows[symbol] } ELSE { r \in RowSet : ~r.entry }

\* ... and when the entry pass reads it: a row without an entry signal has
\* the same effect as a missing row, so the missing row stands for both
EntryRows(symbol) ==
    IF rows[symbol] # Unread
    THEN { rows[symbol] }
    ELSE { r \in RowSet : r.present => r.entry } \cup { HighRow }

\* what data.iloc[-1] may turn out to be, when the exit predicate reads it
LatestRows(symbol, row) ==
    IF latest[symbol] # LatestUnread
    THEN { latest[symbol] }
    ELSE IF /\ row.present
            /\ symbol \in DOMAIN portfolio.positions
            /\ ReadsLatest(strategy, portfolio.positions[symbol].price, row.close)
    THEN { l \in LatestSet :
             /\ strategy # "swing_trading" => ~l.rsi_overbought
             /\ l.rsi_overbought => ~l.below_ma }
    ELSE { LatestUnread }

\* the days from the previous timeline date to the next one
Gaps ==
    IF portfolio.positions = NoPositions
    THEN { 1 }
    ELSE { 1, TRADING_RULES(strategy).max_holding_days }

InitSeq ==
    /\ portfolio = NewPortfolio(INITIAL_CAPITAL)
    /\ ncalls = 0
    /\ last = NoCall
    /\ sumOpens = 0
    /\ lots = [s \in LedgerSymbols |-> NoLot]
    /\ strategy \in Strategies
    /\ pc = "idle"
    /\ today = 0
    /\ ndates = 0
    /\ rows = [s \in Symbols |-> Unread]
    /\ latest = [s \in Symbols |-> LatestUnread]
    /\ exit_keys = << >>
    /\ idx = 0
    /\ runs = 0
    /\ fresh_at_start = TRUE
    /\ result = NotReturned
    /\ ParallelIdle
    /\ OptimizerIdle

\* run_backtest: the data are loaded; without a valid symbol the call returns
\* {}, otherwise it goes on to the loop of _execute_backtest
RunBacktest ==
    /\ pc \in { "idle", "done" }
    /\ runs < MaxRuns
    /\ ndates < MaxDates
    /\ runs' = runs + 1
    /\ fresh_at_start' = (portfolio = NewPortfolio(INITIAL_CAPITAL))
    /\ latest' = [s \in Symbols |-> LatestUnread]
    /\ \E all_data_empty \in BOOLEAN :
        IF all_data_empty
        THEN pc' = "done" /\ result' = EmptyDict
        ELSE pc' = "start" /\ result' = NotReturned
    /\ UNCHANGED << ledgerVars, strategy, today, ndates, rows, exit_keys, idx >>
    /\ UNCHANGED << parVars, splitVars, wfoVars >>

\* _execute_backtest: the loop takes the next date; _process_date begins
NextDate ==
    /\ pc \in { "start", "date" }
    /\ ndates < MaxDates
    /\ \E gap \in Gaps : today' = today + gap
    /\ rows' = [s \in Symbols |-> Unread]
    /\ pc' = ProcessDateOrder[1]
    /\ idx' = 0
    /\ UNCHANGED << ledgerVars, strategy, ndates, latest, exit_keys, runs,
                    fresh_at_start >>
    /\ UNCHANGED << result, parVars, splitVars, wfoVars >>

\* _check_exit_conditions: list(self.portfolio.positions.keys())
ExitStart ==
    /\ pc = "exit"
    /\ idx = 0
    /\ exit_keys' = portfolio.pos_keys
    /\ IF portfolio.pos_keys = << >>
       THEN pc' = PhaseAfter("exit") /\ idx' = 0
       ELSE pc' = pc /\ idx' = 1
    /\ UNCHANGED << ledgerVars, strategy, today, ndates, rows, latest, runs,
                    fresh_at_start >>
    /\ UNCHANGED << result, parVars, splitVars, wfoVars >>

\* _check_exit_conditions: one iteration of the loop
ExitStep ==
    /\ pc = "exit"
    /\ idx \in 1..Len(exit_keys)
    /\ LET symbol == exit_keys[idx]
       IN  \E row \in ExitRows(symbol) :
           \E lat \in LatestRows(symbol, row) :
            /\ portfolio' = exit_step(portfolio, strategy, symbol, row, lat, today)
            /\ rows' = [rows EXCEPT ![symbol] = row]
            /\ latest' = [latest EXCEPT ![symbol] = lat]
    /\ IF idx = Len(exit_keys)
       THEN pc' = PhaseAfter("exit") /\ idx' = 0
       ELSE pc' = pc /\ idx' = idx + 1
    /\ UNCHANGED << ncalls, last, sumOpens, lots, strategy, today, ndates,
                    exit_keys, runs, fresh_at_start >>
    /\ UNCHANGED << result, parVars, splitVars, wfoVars >>

\* _check_entry_conditions: the check of max_positions before the loop
EntryGuard ==
    /\ pc = "entry"
    /\ idx = 0
    /\ IF Cardinality(DOMAIN portfolio.positions)
              >= TRADING_RULES(strategy).max_positions
       THEN pc' = PhaseAfter("entry") /\ idx' = 0
       ELSE pc' = pc /\ idx' = 1
    /\ UNCHANGED << ledgerVars, strategy, today, ndates, rows, latest, exit_keys,
                    runs, fresh_at_start >>
    /\ UNCHANGED << result, parVars, splitVars, wfoVars >>

\* _check_entry_conditions: one iteration of the loop over all_data
EntryStep ==
    /\ pc = "entry"
    /\ idx \in 1..Len(SymbolList)
    /\ LET symbol == SymbolList[idx]
       IN  IF symbol \in DOMAIN portfolio.positions
           THEN UNCHANGED << portfolio, rows >>
           ELSE \E row \in EntryRows(symbol) :
                    /\ portfolio' = entry_step(portfolio, strategy, symbol, row, today)
                    /\ rows' = [rows EXCEPT ![symbol] = row]
    /\ IF idx = Len(SymbolList)
       THEN pc' = PhaseAfter("entry") /\ idx' = 0
       ELSE pc' = pc /\ idx' = idx + 1
    /\ UNCHANGED << ncalls, last, sumOpens, lots, strategy, today, ndates, latest,
                    exit_keys, runs, fresh_at_start >>
    /\ UNCHANGED << result, parVars, splitVars, wfoVars >>

\* _process_date: self.portfolio.update_equity_curve(current_prices, date)
UpdateEquity ==
    /\ pc = "equity"
    /\ portfolio' = update_equity_curve(portfolio, CurrentPrices, today)
    /\ ndates' = ndates + 1
    /\ rows' = [s \in Symbols |-> Unread]
    /\ pc' = PhaseAfter("equity")
    /\ idx' = 0
    /\ UNCHANGED << ncalls, last, sumOpens, lots, strategy, today, latest,
                    exit_keys, runs, fresh_at_start >>
    /\ UNCHANGED << result, parVars, splitVars, wfoVars >>

\* _execute_backtest: the loop is over, _calculate_results returns
FinishRun ==
    /\ pc = "date"
    /\ pc' = "done"
    /\ result' = calculate_results(portfolio, strategy)
    /\ UNCHANGED << ledgerVars, strategy, today, ndates, rows, latest, exit_keys,
                    idx, runs, fresh_at_start >>
    /\ UNCHANGED << parVars, splitVars, wfoVars >>

NextSeq ==
    \/ RunBacktest
    \/ NextDate
    \/ ExitStart
    \/ ExitStep
    \/ EntryGuard
    \/ EntryStep
    \/ UpdateEquity
    \/ FinishRun

SpecSeq == InitSeq /\ [][NextSeq]_vars

----------------------------------------------------------------------------
(* Claims about the sequential engine, checked under SpecSeq *)

Floor(x) == x.n \div x.d
RMin(a, b) == IF RLeq(a, b) THEN a ELSE b

\* the quantity the sizing rule prescribes for a ledger holding `cash`:
\* max(0, floor(min(cash*r/price, cash*m/price, cash/price))), written as
\* floor(cash * min(r, m, 1) / price) for cash >= 0 (for cash < 0 the three
\* quotients are negative and the maximum with 0 is 0)
SizingRule(cash, strat, price) ==
    LET rules == TRADING_RULES(strat)
        fraction == RMin(rules.risk_per_trade,
                         RMin(rules.max_position_size, RInt(1)))
    IN  IF cash < 0
        THEN 0
        ELSE Max(0, Floor(RDiv(RMul(RInt(cash), fraction), RInt(price))))

InEntryStep == pc = "entry" /\ idx \in 1..Len(SymbolList) /\ rows' # rows

\* C6: on every date the exit pass over the open positions is complete
\* before any entry is evaluated (while exits run no position has been
\* opened on that date, an exit step opens nothing and an entry step closes
\* nothing, so the cash an exit credits is in the ledger when entries are
\* sized), and the equity point of the date is appended only after both
\* passes.
C6_ExitsBeforeEntries ==
    /\ [](pc = "exit" =>
            \A s \in DOMAIN portfolio.positions :
                portfolio.positions[s].entry_date # today)
    /\ [](pc \in { "exit", "entry", "equity" } =>
            Len(portfolio.equity_curve) = 1 + ndates)
    /\ [][pc = "exit" =>
            /\ DOMAIN portfolio'.positions \subseteq DOMAIN portfolio.positions
            /\ portfolio'.cash >= portfolio.cash]_vars
    /\ [][pc = "entry" =>
            /\ portfolio'.trades = portfolio.trades
            /\ portfolio'.cash <= portfolio.cash]_vars
    /\ [][portfolio'.equity_curve # portfolio.equity_curve =>
            pc = "equity" /\ pc' = "date"]_vars

\* both passes of a date are over: one symbol was closed and another one
\* entered, sized from cash that holds the proceeds of the exit
C6_Witness ==
    /\ pc = "equity"
    /\ \E i \in 1..Len(portfolio.trades) : portfolio.trades[i].exit_date = today
    /\ \E s \in DOMAIN portfolio.positions :
        /\ portfolio.positions[s].entry_date = today
        /\ portfolio.positions[s].quantity
             > SizingRule(portfolio.initial_capital, strategy,
                          portfolio.positions[s].price.n)

\* C7: in every state of a sequential run the number of open positions is at
\* most max_positions.
C7_MaxPositionsEnforced ==
    Cardinality(DOMAIN portfolio.positions) <= TRADING_RULES(strategy).max_positions

\* C8: position sizing.  A position the entry pass opens has quantity
\* max(0, floor(min(risk_amount/price, max_position_value/price, cash/price)))
\* with both amounts taken from cash alone; the quantity is greater than 0,
\* quantity * price does not exceed the cash, and a signalled symbol is left
\* unopened exactly when that quantity is 0.
C8_PositionSizing ==
    [][InEntryStep =>
        LET s == SymbolList[idx]
            price == rows'[s].close
            q == SizingRule(portfolio.cash, strategy, price)
            signalled == /\ s \notin DOMAIN portfolio.positions
                         /\ rows'[s].present
                         /\ rows'[s].entry
            opened == /\ s \notin DOMAIN portfolio.positions
                      /\ s \in DOMAIN portfolio'.positions
        IN  /\ opened => signalled
            /\ signalled /\ q > 0 => opened
            /\ opened =>
                /\ portfolio'.positions[s].quantity = q
                /\ q > 0
                /\ q * price <= portfolio.cash
                /\ portfolio'.cash = portfolio.cash - q * price
    ]_vars

\* two positions opened in one entry pass, the second sized from less cash;
\* the other symbol's close was too high to buy a single unit on an earlier run
C8_Witness ==
    /\ pc = "equity"
    /\ Cardinality(DOMAIN portfolio.positions) = 2
    /\ \A s \in DOMAIN portfolio.positions : portfolio.positions[s].entry_date = today
    /\ \E s, t \in DOMAIN portfolio.positions :
        /\ portfolio.positions[s].price = portfolio.positions[t].price
        /\ portfolio.positions[s].quantity > portfolio.positions[t].quantity

\* a signalled symbol whose size is 0 was left unopened
C8_ZeroSizeReached ==
    /\ pc = "equity"
    /\ \E s \in Symbols : rows[s] = HighRow /\ s \notin DOMAIN portfolio.positions

\* C9: forced exit.  In the exit pass of a date every open position whose
\* symbol has a row at the date and whose holding_days are >=
\* max_holding_days is closed with its full quantity and the exit reason
\* "max_holding_days", whatever the exit predicate answered (no exit, a
\* partial exit, or an exit for another reason).
C9_ForcedExit ==
    [][pc = "exit" /\ idx \in 1..Len(exit_keys) =>
        LET s == exit_keys[idx]
        IN  ( /\ s \in DOMAIN portfolio.positions
              /\ rows'[s].present
              /\ today - portfolio.positions[s].entry_date
                   >= TRADING_RULES(strategy).max_holding_days )
            => /\ s \notin DOMAIN portfolio'.positions
               /\ Len(portfolio'.trades) = Len(portfolio.trades) + 1
               /\ LET t == portfolio'.trades[Len(portfolio'.trades)]
                  IN  /\ t.symbol = s
                      /\ t.quantity = portfolio.positions[s].quantity
                      /\ t.exit_date = today
                      /\ t.exit_reason = "max_holding_days"
    ]_vars

\* a position was closed in full for the holding limit although the predicate
\* asked for a partial exit
C9_Witness ==
    \E i \in 1..Len(portfolio.trades) :
        LET t == portfolio.trades[i]
        IN  /\ t.exit_reason = "max_holding_days"
            /\ check_exit_conditions(
                   [present |-> TRUE, rsi_overbought |-> FALSE, below_ma |-> FALSE],
                   strategy, t.entry_price, t.exit_price).partial_exit
            /\ t.holding_days = TRADING_RULES(strategy).max_holding_days

\* C10: every run starts from a fresh ledger: whenever a run computes its
\* result, the ledger it used began the run with cash = initial_capital, no
\* position, no trade and a one-point equity curve.
C10_FreshLedgerEachRun ==
    pc = "done" => fresh_at_start

\* C11 (sequential mode): the dates of the equity curve never decrease from
\* the seed point onward, and the curve of a first run has one point for the
\* seed and one for every date simulated so far.
C11_EquityCurveOrdered ==
    /\ Len(portfolio.dates) = Len(portfolio.equity_curve)
    /\ \A i, j \in DOMAIN portfolio.dates :
          i < j => portfolio.dates[i] <= portfolio.dates[j]
    /\ runs <= 1 => Len(portfolio.equity_curve) = 1 + ndates

\* C12 (sequential mode): a run_backtest call that finds no valid symbol
\* returns a dictionary that carries the error marker.
C12_NoDataIsErrorTagged ==
    [][(RunBacktest /\ pc' = "done") => "error" \in DOMAIN result']_vars

\* the held symbols without a row on the date being processed
Unpriced == DOMAIN portfolio.positions \ DOMAIN CurrentPrices

\* C24: the point update_equity_curve appends is cash plus quantity * price
\* over all open positions, a held symbol without a row on the date counting
\* at a price it has shown before (one of the closes of its series).
C24_AllPositionsValued ==
    [][pc = "equity" =>
         \E known \in [Unpriced -> Prices] :
            portfolio'.equity_curve[Len(portfolio'.equity_curve)] =
               get_total_value(portfolio,
                               [s \in DOMAIN CurrentPrices \cup Unpriced |->
                                  IF s \in Unpriced THEN known[s]
                                  ELSE CurrentPrices[s]])]_vars

----------------------------------------------------------------------------
(* BacktestEngine, parallel mode (run_backtest_parallel).  The data of a     *)
(* symbol are its rows on the dates of the run's window; a row carries Close *)
(* and the one indicator signal the task reads on it: the entry signal while *)
(* the task holds no position, the exit signal while it holds one.           *)

ParDates == 1..MaxParDates
ParDay(k) == IF k <= 2 THEN k ELSE 31 * k      \* the day number of date k
ParPrices == { MinPrice, MaxPrice + 1 }

NoParRow == [present |-> FALSE, close |-> 0, signal |-> FALSE]
ParRowSet == { NoParRow } \cup
             { [present |-> TRUE, close |-> p, signal |-> g] :
                 p \in ParPrices, g \in BOOLEAN }
UnreadData == [k \in ParDates |-> [present |-> FALSE, close |-> -1, signal |-> FALSE]]
DataSet == [ParDates -> ParRowSet]

\* _check_single_stock_exit_conditions: the exit reason, or None
check_single_stock_exit_conditions(strat, row, position, date) ==
    LET entry_price == position.entry_price
        current_price == row.close
        holding_days == date - position.entry_date
    IN  IF 10 * current_price >= 11 * entry_price
        THEN << "profit_taking" >>
        ELSE IF 100 * current_price <= 95 * entry_price
        THEN << "stop_loss" >>
        ELSE IF strat = "swing_trading"
        THEN IF row.signal
             THEN << "RSI_overbought" >>
             ELSE IF holding_days > 30 THEN << "time_exit" >> ELSE None
        ELSE IF strat = "long_term"
        THEN IF holding_days > 365
             THEN << "long_term_exit" >>
             ELSE IF row.signal THEN << "trend_reversal" >> ELSE None
        ELSE None

\* the Trade _run_single_stock_backtest builds when the position is exited
SingleStockTrade(strat, position, row, date, exit_signal) ==
    [ symbol          |-> position.symbol,
      entry_date      |-> position.entry_date,
      exit_date       |-> date,
      entry_price     |-> RInt(position.entry_price),
      exit_price      |-> row.close,
      quantity        |-> position.quantity,
      trade_type      |-> "sell",
      strategy        |-> strat,
      entry_reason    |-> position.entry_reason,
      exit_reason     |-> exit_signal,
      profit_loss     |-> RInt((row.close - position.entry_price) * position.quantity),
      profit_loss_pct |-> Rat(row.close - position.entry_price, position.entry_price),
      holding_days    |-> date - position.entry_date ]

\* _run_single_stock_backtest: the loop over the rows, from date k on
RECURSIVE SingleStockLoop(_, _, _, _, _, _, _)
SingleStockLoop(pf, strat, symbol, data, k, position, trades) ==
    IF k > MaxParDates
    THEN trades
    ELSE LET row == data[k]
             date == ParDay(k)
         IN  IF ~row.present
             THEN SingleStockLoop(pf, strat, symbol, data, k + 1, position, trades)
             ELSE IF position = None
             THEN IF row.signal
                  THEN SingleStockLoop(pf, strat, symbol, data, k + 1,
                         << [ symbol       |-> symbol,
                              entry_date   |-> date,
                              entry_price  |-> row.close,
                              quantity     |-> calculate_position_size(pf, strat, row.close),
                              entry_reason |-> "entry_signal" ] >>,
                         trades)
                  ELSE SingleStockLoop(pf, strat, symbol, data, k + 1, position, trades)
             ELSE LET exit_signal ==
                          check_single_stock_exit_conditions(strat, row, position[1], date)
                  IN  IF exit_signal # None
                      THEN SingleStockLoop(pf, strat, symbol, data, k + 1, None,
                             Append(trades,
                                    SingleStockTrade(strat, position[1], row, date,
                                                     exit_signal[1])))
                      ELSE SingleStockLoop(pf, strat, symbol, data, k + 1, position,
                                           trades)

\* _run_single_stock_backtest, when no exception is raised inside it
run_single_stock_backtest(pf, strat, symbol, data) ==
    SingleStockLoop(pf, strat, symbol, data, 1, None, << >>)

\* variant: a failed task empties the merged list
collect_abort_on_failure(trades_so_far, outcome, trades) ==
    IF outcome = "returned" THEN trades_so_far \o trades ELSE << >>

\* the body of the as_completed loop for one future.  outcome "returned": the
\* task returned its trades; "failed": an exception inside the task was caught
\* there and the task returned []; "raised": future.result() raised and the
\* loop caught it
collect(trades_so_far, outcome, trades) ==
    IF outcome = "returned" THEN trades_so_far \o trades ELSE trades_so_far

Outcomes == { "returned", "failed", "raised" }

\* list.sort(key=lambda x: x.entry_date): a stable sort
RECURSIVE InsertByEntryDate(_, _)
InsertByEntryDate(sorted, t) ==
    IF sorted = << >>
    THEN << t >>
    ELSE IF sorted[Len(sorted)].entry_date <= t.entry_date
         THEN Append(sorted, t)
         ELSE Append(InsertByEntryDate(SubSeq(sorted, 1, Len(sorted) - 1), t),
                     sorted[Len(sorted)])

RECURSIVE SortByEntryDate(_)
SortByEntryDate(trades) ==
    IF trades = << >>
    THEN << >>
    ELSE InsertByEntryDate(SortByEntryDate(SubSeq(trades, 1, Len(trades) - 1)),
                           trades[Len(trades)])

\* _reconstruct_equity_curve: the dates of all series, sorted
AllDates(data) ==
    { k \in ParDates : \E sym \in DOMAIN data : data[sym][k].present }

\* variant: an exit is credited at the entry price of the trade
RECURSIVE ReplayExits_at_entry_price(_, _)
ReplayExits_at_entry_price(st, exit_trades) ==
    IF exit_trades = << >>
    THEN st
    ELSE LET t == Head(exit_trades)
             held == t.symbol \in DOMAIN st.positions
             after ==
                 IF held /\ st.positions[t.symbol] >= t.quantity
                 THEN [ cash |-> st.cash + t.quantity * t.entry_price.n,
                        positions |->
                          IF st.positions[t.symbol] - t.quantity <= 0
                          THEN [x \in DOMAIN st.positions \ {t.symbol} |->
                                  st.positions[x]]
                          ELSE [st.positions EXCEPT ![t.symbol] = @ - t.quantity] ]
                 ELSE st
         IN  ReplayExits_at_entry_price(after, Tail(exit_trades))

\* the replay state is current_cash and current_positions (symbol -> quantity)
RECURSIVE ReplayExits(_, _)
ReplayExits(st, exit_trades) ==
    IF exit_trades = << >>
    THEN st
    ELSE LET t == Head(exit_trades)
             held == t.symbol \in DOMAIN st.positions
             after ==
                 IF held /\ st.positions[t.symbol] >= t.quantity
                 THEN [ cash |-> st.cash + t.quantity * t.exit_price,
                        positions |->
                          IF st.positions[t.symbol] - t.quantity <= 0
                          THEN [x \in DOMAIN st.positions \ {t.symbol} |->
                                  st.positions[x]]
                          ELSE [st.positions EXCEPT ![t.symbol] = @ - t.quantity] ]
                 ELSE st
         IN  ReplayExits(after, Tail(exit_trades))

\* entry_price of a trade of the parallel mode is a close, a whole number
RECURSIVE ReplayEntries(_, _)
ReplayEntries(st, entry_trades) ==
    IF entry_trades = << >>
    THEN st
    ELSE LET t == Head(entry_trades)
             after ==
                 [ cash |-> st.cash - t.quantity * t.entry_price.n,
                   positions |->
                     [x \in DOMAIN st.positions \cup {t.symbol} |->
                        IF x = t.symbol
                        THEN (IF x \in DOMAIN st.positions THEN st.positions[x] ELSE 0)
                             + t.quantity
                        ELSE st.positions[x]] ]
         IN  ReplayEntries(after, Tail(entry_trades))

RECURSIVE ReplayValue(_, _, _, _)
ReplayValue(st, data, k, syms) ==
    IF syms = << >>
    THEN 0
    ELSE (IF Head(syms) \in DOMAIN st.positions /\ Head(syms) \in DOMAIN data
             /\ data[Head(syms)][k].present
          THEN st.positions[Head(syms)] * data[Head(syms)][k].close
          ELSE 0)
         + ReplayValue(st, data, k, Tail(syms))

\* the loop over all_dates, from date k on
RECURSIVE ReplayDates(_, _, _, _, _)
ReplayDates(pf, data, trades, k, st) ==
    IF k > MaxParDates
    THEN pf
    ELSE IF k \notin AllDates(data)
    THEN ReplayDates(pf, data, trades, k + 1, st)
    ELSE LET entry_trades == SelectSeq(trades, LAMBDA t : t.entry_date = ParDay(k))
             exit_trades == SelectSeq(trades, LAMBDA t : t.exit_date = ParDay(k))
             after == ReplayEntries(ReplayExits(st, exit_trades), entry_trades)
             total_value == after.cash + ReplayValue(after, data, k, SymbolList)
         IN  ReplayDates([pf EXCEPT !.equity_curve = Append(@, total_value),
                                    !.dates = Append(@, ParDay(k))],
                         data, trades, k + 1, after)

\* current_cash and current_positions when the loop over all_dates is over
RECURSIVE ReplayState(_, _, _, _)
ReplayState(data, trades, k, st) ==
    IF k > MaxParDates
    THEN st
    ELSE IF k \notin AllDates(data)
    THEN ReplayState(data, trades, k + 1, st)
    ELSE LET entry_trades == SelectSeq(trades, LAMBDA t : t.entry_date = ParDay(k))
             exit_trades == SelectSeq(trades, LAMBDA t : t.exit_date = ParDay(k))
         IN  ReplayState(data, trades, k + 1,
                         ReplayEntries(ReplayExits(st, exit_trades), entry_trades))

\* _reconstruct_equity_curve (start_date is the day before the first date)
reconstruct_equity_curve(pf, data) ==
    LET all_trades_sorted == SortByEntryDate(pf.trades)
        all_dates == AllDates(data)
        first == IF all_dates = {}
                 THEN 0
                 ELSE ParDay(CHOOSE k \in all_dates : \A j \in all_dates : k <= j)
    IN  ReplayDates([pf EXCEPT !.equity_curve = << pf.initial_capital >>,
                               !.dates = << first >>],
                    data, all_trades_sorted, 1,
                    [cash |-> pf.initial_capital, positions |-> NoPositions])

InitPar ==
    /\ portfolio = NewPortfolio(INITIAL_CAPITAL)
    /\ ncalls = 0
    /\ last = NoCall
    /\ sumOpens = 0
    /\ lots = [s \in LedgerSymbols |-> NoLot]
    /\ EngineIdle
    /\ result = NotReturned
    /\ ParallelIdle
    /\ OptimizerIdle

\* run_backtest_parallel up to the submission of the tasks: the symbols with
\* a valid frame are kept; without one the call returns the error dictionary
RunBacktestParallel ==
    /\ pc = "idle"
    /\ \E valid \in SUBSET Symbols :
        /\ processed_data' = [sym \in valid |-> UnreadData]
        /\ future_to_symbol' = valid
        /\ IF valid = {}
           THEN pc' = "done" /\ result' = NoDataError
           ELSE pc' = "pool" /\ result' = NotReturned
    /\ all_trades' = << >>
    /\ failed' = {}
    /\ UNCHANGED << ledgerVars, strategy, seqVars, splitVars, wfoVars >>

\* a task completes and as_completed yields its future
TaskCompleted ==
    /\ pc = "pool"
    /\ \E symbol \in future_to_symbol, data \in DataSet, outcome \in Outcomes :
        /\ processed_data' = [processed_data EXCEPT ![symbol] = data]
        /\ all_trades' = collect(all_trades, outcome,
                                 run_single_stock_backtest(portfolio, strategy,
                                                           symbol, data))
        /\ failed' = IF outcome = "returned" THEN failed ELSE failed \cup {symbol}
        /\ future_to_symbol' = future_to_symbol \ {symbol}
    /\ UNCHANGED << ledgerVars, strategy, pc, seqVars, result, splitVars, wfoVars >>

\* after the pool is joined: the reconciliation and the returned result
Reconcile ==
    /\ pc = "pool"
    /\ future_to_symbol = {}
    /\ IF all_trades # << >>
       THEN /\ all_trades' = SortByEntryDate(all_trades)
            /\ portfolio' = reconstruct_equity_curve(
                              [NewPortfolio(INITIAL_CAPITAL) EXCEPT
                                 !.trades = SortByEntryDate(all_trades)],
                              processed_data)
            /\ result' = calculate_results(portfolio', strategy)
       ELSE /\ result' = [error |-> "no valid trades"]
            /\ UNCHANGED << portfolio, all_trades >>
    /\ pc' = "done"
    /\ UNCHANGED << ncalls, last, sumOpens, lots, strategy, seqVars,
                    processed_data, future_to_symbol, failed, splitVars, wfoVars >>

NextPar ==
    \/ RunBacktestParallel
    \/ TaskCompleted
    \/ Reconcile

SpecPar == InitPar /\ [][NextPar]_vars

----------------------------------------------------------------------------
(* Claims about the parallel mode, checked under SpecPar *)

Range(seq) == { seq[i] : i \in DOMAIN seq }

\* the trades the task of a symbol returns on the data it was given
TaskTrades(symbol) ==
    run_single_stock_backtest(NewPortfolio(INITIAL_CAPITAL), strategy, symbol,
                              processed_data[symbol])

\* the symbols whose future was yielded and whose task did not fail
Delivered == (DOMAIN processed_data \ future_to_symbol) \ failed

\* C14: a failed task contributes nothing and stops nothing: a failure leaves
\* the pool running and the merged list as it was, the join waits for every
\* task, and during and after the pool the merged list holds exactly the
\* trades of the tasks that did not fail, each once, whatever the order of
\* completion.
C14_FailSoft ==
    /\ [](pc \in { "pool", "done" } =>
            /\ Range(all_trades) = UNION { Range(TaskTrades(sym)) : sym \in Delivered }
            /\ Len(all_trades) = Cardinality(Range(all_trades)))
    /\ [](pc = "done" => future_to_symbol = {})
    /\ [][failed' # failed =>
            /\ pc' = "pool"
            /\ all_trades' = all_trades
            /\ \E sym \in future_to_symbol :
                 /\ future_to_symbol' = future_to_symbol \ {sym}
                 /\ failed' = failed \cup {sym}]_vars

C14_Witness ==
    /\ pc = "done"
    /\ failed # {}
    /\ all_trades # << >>
    /\ portfolio.trades = all_trades
    /\ "error" \notin DOMAIN result

RECURSIVE SubmissionOrderTrades(_)
SubmissionOrderTrades(syms) ==
    IF syms = << >>
    THEN << >>
    ELSE (IF Head(syms) \in Delivered THEN TaskTrades(Head(syms)) ELSE << >>)
         \o SubmissionOrderTrades(Tail(syms))

\* C15: after the reconciliation the merged list is ordered by entry_date and
\* is the list the inputs determine: the one obtained when the tasks complete
\* in the order of their submission.
C15_DeterministicMerge ==
    (pc = "done" /\ "error" \notin DOMAIN result) =>
        /\ \A i, j \in DOMAIN portfolio.trades :
              i < j => portfolio.trades[i].entry_date <= portfolio.trades[j].entry_date
        /\ portfolio.trades = SortByEntryDate(SubmissionOrderTrades(SymbolList))

----------------------------------------------------------------------------
(* WFOptimizer._split_periods (src/wfo_optimizer.py).  Dates are day         *)
(* numbers; run_wfo parses start and end from "%Y-%m-%d" strings and the     *)
(* periods are formatted back to such strings, so a date has no time of day  *)
(* and a period is kept as its four day numbers.                             *)

\* datetime.min as a day number, scaled to the dates of the model
MinDay == -3

SplitArgsSet ==
    { [start |-> s, end |-> s + span, train_period |-> tr, test_period |-> te,
       step_size |-> st] :
        s \in 0..1, span \in 0..MaxSpan, tr \in 1..MaxTrain, te \in 1..MaxTest,
        st \in -1..MaxStep }
    \cup
    { [start |-> 0, end |-> ExampleSpan, train_period |-> DefaultTrainPeriod,
       test_period |-> DefaultTestPeriod, step_size |-> DefaultStepSize] }

\* variant: the test window starts on the last day of the train window
MakePeriod_shared_day(train_start, train_period, test_period) ==
    LET train_end == train_start + (train_period - 1)
        test_start == train_end
        test_end == test_start + (test_period - 1)
    IN  << train_start, train_end, test_start, test_end >>

\* variant: the train window runs one day into the test window
MakePeriod_long_train(train_start, train_period, test_period) ==
    LET train_end == train_start + train_period
        test_start == train_start + train_period
        test_end == test_start + (test_period - 1)
    IN  << train_start, train_end, test_start, test_end >>

\* the tuple appended for a period that starts on train_start
MakePeriod(train_start, train_period, test_period) ==
    LET train_end == train_start + (train_period - 1)
        test_start == train_end + 1
        test_end == test_start + (test_period - 1)
    IN  << train_start, train_end, test_start, test_end >>

\* variant: a period is taken while its train window fits before end
SplitCondition_train_only(cur, args) ==
    cur + args.train_period <= args.end

\* the condition of the while loop
SplitCondition(cur, args) ==
    cur + (args.train_period + args.test_period) <= args.end

InitSplit ==
    /\ portfolio = NewPortfolio(INITIAL_CAPITAL)
    /\ ncalls = 0
    /\ last = NoCall
    /\ sumOpens = 0
    /\ lots = [s \in LedgerSymbols |-> NoLot]
    /\ EngineIdle
    /\ result = NotReturned
    /\ ParallelIdle
    /\ OptimizerIdle

\* _split_periods is called: periods = [], current_start = start_dt
SplitCall ==
    /\ pc = "idle"
    /\ \E args \in SplitArgsSet :
        /\ split_args' = args
        /\ current_start' = args.start
    /\ periods' = << >>
    /\ pc' = "split"
    /\ UNCHANGED << ledgerVars, strategy, seqVars, result, parVars, wfoVars >>

\* periods.append(...): the model keeps the first MaxPeriods periods of the
\* list, the loop itself is not bounded
AppendPeriod(ps, period) ==
    IF Len(ps) < MaxPeriods THEN Append(ps, period) ELSE ps

\* one iteration of the while loop
SplitStep ==
    /\ pc = "split"
    /\ SplitCondition(current_start, split_args)
    /\ current_start + split_args.step_size >= MinDay
    /\ periods' = AppendPeriod(periods, MakePeriod(current_start, split_args.train_period,
                                                   split_args.test_period))
    /\ current_start' = current_start + split_args.step_size
    /\ UNCHANGED << ledgerVars, strategy, pc, seqVars, result, parVars, split_args,
                    wfoVars >>

\* an iteration whose current_start += timedelta(days=step_size) leaves the
\* range of datetime: OverflowError, which nothing in the optimizer catches
SplitOverflow ==
    /\ pc = "split"
    /\ SplitCondition(current_start, split_args)
    /\ current_start + split_args.step_size < MinDay
    /\ periods' = AppendPeriod(periods, MakePeriod(current_start, split_args.train_period,
                                                   split_args.test_period))
    /\ pc' = "raised"
    /\ UNCHANGED << ledgerVars, strategy, seqVars, result, parVars, split_args,
                    current_start, wfoVars >>

\* the loop condition is false: return periods
SplitReturn ==
    /\ pc = "split"
    /\ ~SplitCondition(current_start, split_args)
    /\ pc' = "periods"
    /\ UNCHANGED << ledgerVars, strategy, seqVars, result, parVars, splitVars,
                    wfoVars >>

NextSplit ==
    \/ SplitCall
    \/ SplitStep
    \/ SplitOverflow
    \/ SplitReturn

SpecSplit == InitSplit /\ [][NextSplit]_vars

----------------------------------------------------------------------------
(* Claims about _split_periods, checked under SpecSplit *)

Span == split_args.end - split_args.start
Window == split_args.train_period + split_args.test_period
Days(from, to) == from..to

\* C18: period i (0-based) starts i * step_size days after start, its train
\* window has train_period days, its test window begins the day after and has
\* test_period days, the two share no date, and test_end is not after end.
C18_PeriodBoundaries ==
    \A k \in DOMAIN periods :
        LET train_start == periods[k][1]
            train_end == periods[k][2]
            test_start == periods[k][3]
            test_end == periods[k][4]
        IN  /\ train_start = split_args.start + (k - 1) * split_args.step_size
            /\ train_end = train_start + split_args.train_period - 1
            /\ test_start = train_end + 1
            /\ test_end = test_start + split_args.test_period - 1
            /\ Days(train_start, train_end) \cap Days(test_start, test_end) = {}
            /\ test_end <= split_args.end

C18_Witness ==
    /\ pc = "periods"
    /\ Len(periods) >= 2
    /\ periods[Len(periods)][4] = split_args.end - 1

\* C19: a split that returned, with step_size > 0, has
\* floor((D - train_period - test_period) / step_size) + 1 periods when
\* D >= train_period + test_period (5 in the worked example) and none when
\* D is smaller.
C19_PeriodCount ==
    (pc = "periods" /\ split_args.step_size > 0) =>
        /\ Span >= Window =>
              Len(periods) = ((Span - Window) \div split_args.step_size) + 1
        /\ Span < Window => periods = << >>
        /\ (/\ Span = ExampleSpan
            /\ split_args.train_period = DefaultTrainPeriod
            /\ split_args.test_period = DefaultTestPeriod
            /\ split_args.step_size = DefaultStepSize) => Len(periods) = 5

C19_Witness ==
    /\ pc = "periods"
    /\ Span = ExampleSpan
    /\ split_args.step_size = DefaultStepSize
    /\ Len(periods) = 5

C19_NoPeriodReached ==
    /\ pc = "periods"
    /\ split_args.step_size > 0
    /\ Span = Window - 1
    /\ periods = << >>

\* C20 as stated: no date of the test window of a period lies in the train or
\* the test window of another period.
C20_NoOverlapAcrossPeriods ==
    \A k, j \in DOMAIN periods :
        k # j =>
            /\ Days(periods[k][3], periods[k][4]) \cap Days(periods[j][1], periods[j][2]) = {}
            /\ Days(periods[k][3], periods[k][4]) \cap Days(periods[j][3], periods[j][4]) = {}

\* C20, corrected: the train and the test window of one period share no date;
\* windows of different periods are apart exactly when the step covers a whole
\* period, step_size >= train_period + test_period.
C20_NoOverlapWithinPeriod ==
    /\ \A k \in DOMAIN periods :
          Days(periods[k][1], periods[k][2]) \cap Days(periods[k][3], periods[k][4]) = {}
    /\ (Len(periods) >= 2 /\ split_args.step_size > 0) =>
          (split_args.step_size >= Window <=> C20_NoOverlapAcrossPeriods)

C20_Witness ==
    /\ pc = "periods"
    /\ split_args.train_period = DefaultTrainPeriod
    /\ split_args.step_size = DefaultStepSize
    /\ Len(periods) >= 2
    /\ periods[2][1] <= periods[1][4]

\* the while loop under fair scheduling: an iteration that can run does run
SpecSplitFair ==
    /\ InitSplit /\ [][NextSplit]_vars
    /\ WF_vars(SplitStep) /\ WF_vars(SplitOverflow) /\ WF_vars(SplitReturn)

\* C21: every call of _split_periods ends, by returning the periods or by
\* raising, whatever the step size.
C21_SplitTerminates ==
    (pc = "split") ~> (pc \in { "periods", "raised" })

----------------------------------------------------------------------------
(* WFOptimizer.run_wfo (src/wfo_optimizer.py).  The grid is scaled down to   *)
(* two parameters with two values each.  A backtest of the optimizer runs on *)
(* a new BacktestEngine; the model takes what engine.run_backtest does from  *)
(* a set of outcomes: it raises, it returns {} (no valid data), it returns   *)
(* _calculate_results of a ledger without trades, or it returns a full       *)
(* result, of which the model keeps the keys the optimizer reads.  Of the    *)
(* summary the model leaves out std_return and parameter_stability.          *)

ParamRanges ==
    [ profit_target |-> << Rat(1, 20), Rat(3, 40) >>,
      stop_loss     |-> << Rat(3, 100), Rat(1, 20) >> ]

\* _generate_param_combinations: the product, in declaration order
generate_param_combinations ==
    LET pt == ParamRanges.profit_target
        sl == ParamRanges.stop_loss
    IN  [k \in 1..(Len(pt) * Len(sl)) |->
            [ profit_target |-> pt[((k - 1) \div Len(sl)) + 1],
              stop_loss     |-> sl[((k - 1) % Len(sl)) + 1] ]]

\* dict.get(key, default)
Get(dict, key, default) == IF key \in DOMAIN dict THEN dict[key] ELSE default

\* _create_custom_rules: the dictionary it returns
create_custom_rules(base, strat, params) ==
    IF strat = "swing_trading"
    THEN [base EXCEPT
            !.entry_conditions.rsi_range =
                << Get(params, "rsi_range_low", 40), Get(params, "rsi_range_high", 50) >>,
            !.entry_conditions.volume_multiplier =
                Get(params, "volume_multiplier", Rat(3, 2)),
            !.exit_conditions.profit_target = Get(params, "profit_target", Rat(75, 1000)),
            !.exit_conditions.stop_loss = Get(params, "stop_loss", Rat(5, 100)),
            !.exit_conditions.partial_profit.first_target =
                Get(params, "partial_profit_first", Rat(5, 100))]
    ELSE [base EXCEPT
            !.exit_conditions.profit_target = Get(params, "profit_target", Rat(30, 100)),
            !.exit_conditions.stop_loss = Get(params, "stop_loss", Rat(85, 1000)),
            !.entry_conditions =
                [k \in DOMAIN base.entry_conditions \cup { "volume_surge_threshold" } |->
                    IF k = "volume_surge_threshold"
                    THEN Get(params, "volume_surge_threshold", Rat(3, 2))
                    ELSE base.entry_conditions[k]]]

\* _create_custom_rules: what self.rules holds after the call.  self.rules.copy()
\* copies the top level only, so entry_conditions and exit_conditions of the
\* copy are the dictionaries of self.rules and the assignments land in both
rules_after_custom(base, strat, params) ==
    [base EXCEPT
        !.entry_conditions = create_custom_rules(base, strat, params).entry_conditions,
        !.exit_conditions = create_custom_rules(base, strat, params).exit_conditions]

FullResult(total_trades, sharpe_ratio, total_return, max_drawdown, win_rate) ==
    [ strategy     |-> "swing_trading",
      total_trades |-> total_trades,
      sharpe_ratio |-> sharpe_ratio,
      total_return |-> total_return,
      max_drawdown |-> max_drawdown,
      win_rate     |-> win_rate ]

\* full results: good metrics on too few trades, good and poor metrics on
\* enough trades
FullResults ==
    { FullResult(MinTrades - 1, RInt(2), Rat(1, 5), Rat(-1, 10), Rat(3, 5)),
      FullResult(MinTrades, RInt(2), Rat(1, 5), Rat(-1, 10), Rat(3, 5)),
      FullResult(MinTrades, RInt(0), Rat(-1, 10), Rat(-1, 5), Rat(2, 5)) }

\* ledgers of a run that closed no position: untouched, or one position open
NoTradeLedgers ==
    { NewPortfolio(INITIAL_CAPITAL),
      update_equity_curve(
          add_position(NewPortfolio(INITIAL_CAPITAL), "A", 1, MinPrice, 1,
                       "swing_trading", "entry_signal"),
          [sym \in {"A"} |-> MinPrice], 1) }

\* what engine.run_backtest does in a run of the optimizer
RunOutcomes ==
    { [raised |-> TRUE, data |-> FALSE, ntrades |-> 0, value |-> NotReturned],
      [raised |-> FALSE, data |-> FALSE, ntrades |-> 0, value |-> EmptyDict] }
    \cup
    { [raised |-> FALSE, data |-> TRUE, ntrades |-> Len(pf.trades),
       value |-> calculate_results(pf, "swing_trading")] : pf \in NoTradeLedgers }
    \cup
    { [raised |-> FALSE, data |-> TRUE, ntrades |-> r.total_trades, value |-> r] :
        r \in FullResults }

\* variant: the guard on the number of trades is left out
calculate_optimization_score_no_guard(results) ==
    LET sharpe_ratio == Get(results, "sharpe_ratio", RInt(0))
        total_return == Get(results, "total_return", RInt(0))
        dd == Get(results, "max_drawdown", RInt(0))
        max_drawdown == [n |-> Abs(dd.n), d |-> dd.d]
        win_rate == Get(results, "win_rate", RInt(0))
    IN  RAdd(RAdd(RMul(sharpe_ratio, Rat(2, 5)), RMul(total_return, Rat(3, 10))),
             RAdd(RMul(RSub(RInt(1), max_drawdown), Rat(1, 5)),
                  RMul(win_rate, Rat(1, 10))))

\* _calculate_optimization_score
calculate_optimization_score(results) ==
    LET sharpe_ratio == Get(results, "sharpe_ratio", RInt(0))
        total_return == Get(results, "total_return", RInt(0))
        dd == Get(results, "max_drawdown", RInt(0))
        max_drawdown == [n |-> Abs(dd.n), d |-> dd.d]
        win_rate == Get(results, "win_rate", RInt(0))
        total_trades == Get(results, "total_trades", 0)
    IN  IF total_trades < MinTrades
        THEN MinusInf
        ELSE RAdd(RAdd(RMul(sharpe_ratio, Rat(2, 5)), RMul(total_return, Rat(3, 10))),
                  RAdd(RMul(RSub(RInt(1), max_drawdown), Rat(1, 5)),
                       RMul(win_rate, Rat(1, 10))))

\* score > best_score on floats, float('-inf') included
ScoreGt(score, best) ==
    IF score = MinusInf
    THEN FALSE
    ELSE IF best = MinusInf THEN TRUE ELSE ~RLeq(score, best)

\* if results and "error" not in results
Accepted(outcome) ==
    /\ ~outcome.raised
    /\ outcome.value # EmptyDict
    /\ "error" \notin DOMAIN outcome.value

\* variant: validation runs on the train window
test_window_train(period) == << period[1], period[2] >>

train_window(period) == << period[1], period[2] >>
test_window(period) == << period[3], period[4] >>

RECURSIVE RSum(_)
RSum(seq) == IF seq = << >> THEN RInt(0) ELSE RAdd(Head(seq), RSum(Tail(seq)))

\* np.mean of a list of floats
RMean(seq) == RDiv(RSum(seq), RInt(Len(seq)))

\* np.argmax(values) + 1 and np.argmin(values) + 1: the first extreme
ArgMax1(seq) ==
    CHOOSE i \in DOMAIN seq :
        /\ \A j \in DOMAIN seq : RLeq(seq[j], seq[i])
        /\ \A j \in 1..(i - 1) : seq[j] # seq[i]
ArgMin1(seq) ==
    CHOOSE i \in DOMAIN seq :
        /\ \A j \in DOMAIN seq : RLeq(seq[i], seq[j])
        /\ \A j \in 1..(i - 1) : seq[j] # seq[i]

\* _summarize_wfo_results
summarize_wfo_results(results) ==
    IF results = << >>
    THEN [error |-> "no WFO results"]
    ELSE LET valid == SelectSeq(results, LAMBDA r : "error" \notin DOMAIN r.test_results)
             test_returns ==
                 [i \in DOMAIN valid |-> Get(valid[i].test_results, "total_return", RInt(0))]
             test_sharpe_ratios ==
                 [i \in DOMAIN valid |-> Get(valid[i].test_results, "sharpe_ratio", RInt(0))]
             test_max_drawdowns ==
                 [i \in DOMAIN valid |->
                    LET dd == Get(valid[i].test_results, "max_drawdown", RInt(0))
                    IN  [n |-> Abs(dd.n), d |-> dd.d]]
             test_win_rates ==
                 [i \in DOMAIN valid |-> Get(valid[i].test_results, "win_rate", RInt(0))]
             test_trade_counts ==
                 [i \in DOMAIN valid |->
                    RInt(Get(valid[i].test_results, "total_trades", 0))]
         IN  IF valid = << >>
             THEN [error |-> "no valid test results"]
             ELSE [ total_periods    |-> Len(results),
                    valid_periods    |-> Len(test_returns),
                    avg_return       |-> RMean(test_returns),
                    avg_sharpe_ratio |-> RMean(test_sharpe_ratios),
                    avg_max_drawdown |-> RMean(test_max_drawdowns),
                    avg_win_rate     |-> RMean(test_win_rates),
                    avg_trade_count  |-> RMean(test_trade_counts),
                    best_period      |-> ArgMax1(test_returns),
                    worst_period     |-> ArgMin1(test_returns),
                    positive_periods |->
                        Cardinality({ i \in DOMAIN test_returns : test_returns[i].n > 0 }),
                    negative_periods |->
                        Cardinality({ i \in DOMAIN test_returns : test_returns[i].n < 0 }) ]

\* the arguments of run_wfo in the model: windows of MaxTrain and MaxTest
\* days, and an end that leaves room for no, one or two periods
WfoArgsSet ==
    { [start |-> 0, end |-> e, train_period |-> MaxTrain, test_period |-> MaxTest,
       step_size |-> MaxStep] :
        e \in { MaxTrain + MaxTest - 1, MaxTrain + MaxTest,
                MaxTrain + MaxTest + MaxStep } }

InitWfo ==
    /\ portfolio = NewPortfolio(INITIAL_CAPITAL)
    /\ ncalls = 0
    /\ last = NoCall
    /\ sumOpens = 0
    /\ lots = [s \in LedgerSymbols |-> NoLot]
    /\ EngineIdle
    /\ result = NotReturned
    /\ ParallelIdle
    /\ OptimizerIdle

\* run_wfo up to the call of _split_periods
RunWfo ==
    /\ pc = "idle"
    /\ \E args \in WfoArgsSet :
        /\ split_args' = args
        /\ current_start' = args.start
    /\ periods' = << >>
    /\ pc' = "split"
    /\ UNCHANGED << ledgerVars, strategy, seqVars, result, parVars, wfoVars >>

\* run_wfo: the loop takes the next period; _optimize_parameters begins
StartPeriod ==
    /\ pc = "periods"
    /\ period_i < Len(periods)
    /\ period_i' = period_i + 1
    /\ combo_i' = 1
    /\ best_params' = None
    /\ best_score' = MinusInf
    /\ train_results' = << >>
    /\ pc' = "optimize"
    /\ UNCHANGED << ledgerVars, strategy, seqVars, result, parVars, splitVars,
                    wfo_results, summary, runlog, trading_rules >>

\* the body of the loop of _optimize_parameters for a run that ends as outcome
OptimizeWith(outcome) ==
    LET params == generate_param_combinations[combo_i]
        scored == Accepted(outcome)
        score == IF scored
                 THEN calculate_optimization_score(outcome.value)
                 ELSE MinusInf
        better == scored /\ ScoreGt(score, best_score)
    IN  /\ best_score' = IF better THEN score ELSE best_score
        /\ best_params' = IF better THEN params ELSE best_params
        /\ train_results' = Append(train_results,
                                   [ params  |-> params,
                                     outcome |-> outcome,
                                     scored  |-> scored ])
        /\ runlog' = Append(runlog,
                            [ phase   |-> "train",
                              period  |-> period_i,
                              params  |-> params,
                              window  |-> train_window(periods[period_i]),
                              outcome |-> None ])
        /\ trading_rules' = rules_after_custom(trading_rules, strategy, params)

\* _optimize_parameters: one iteration of the loop over the combinations
OptimizeStep ==
    /\ pc = "optimize"
    /\ combo_i \in DOMAIN generate_param_combinations
    /\ \E outcome \in RunOutcomes : OptimizeWith(outcome)
    /\ combo_i' = combo_i + 1
    /\ UNCHANGED << ledgerVars, strategy, pc, seqVars, result, parVars, splitVars,
                    period_i, wfo_results, summary >>

\* _optimize_parameters returns best_params; run_wfo tests it
OptimizeReturn ==
    /\ pc = "optimize"
    /\ combo_i \notin DOMAIN generate_param_combinations
    /\ pc' = IF best_params # None THEN "validate" ELSE "periods"
    /\ UNCHANGED << ledgerVars, strategy, seqVars, result, parVars, splitVars,
                    wfoVars >>

\* _validate_parameters on the test window, and the entry of the period; an
\* exception of the run leaves run_wfo
Validate ==
    /\ pc = "validate"
    /\ \E outcome \in RunOutcomes :
        /\ runlog' = Append(runlog,
                            [ phase   |-> "test",
                              period  |-> period_i,
                              params  |-> best_params,
                              window  |-> test_window(periods[period_i]),
                              outcome |-> outcome ])
        /\ IF outcome.raised
           THEN pc' = "raised" /\ UNCHANGED wfo_results
           ELSE /\ pc' = "periods"
                /\ wfo_results' =
                     Append(wfo_results,
                            [ period         |-> period_i,
                              train_start    |-> periods[period_i][1],
                              train_end      |-> periods[period_i][2],
                              test_start     |-> periods[period_i][3],
                              test_end       |-> periods[period_i][4],
                              optimal_params |-> best_params,
                              test_results   |-> outcome.value ])
    /\ train_results' = << >>
    /\ trading_rules' = rules_after_custom(trading_rules, strategy, best_params)
    /\ UNCHANGED << ledgerVars, strategy, seqVars, result, parVars, splitVars,
                    period_i, combo_i, best_params, best_score, summary >>

\* run_wfo after the last period: the summary, and the return
Summarize ==
    /\ pc = "periods"
    /\ period_i = Len(periods)
    /\ summary' = summarize_wfo_results(wfo_results)
    /\ pc' = "done"
    /\ UNCHANGED << ledgerVars, strategy, seqVars, result, parVars, splitVars,
                    period_i, combo_i, best_params, best_score, train_results,
                    wfo_results, runlog, trading_rules >>

NextWfo ==
    \/ RunWfo
    \/ SplitStep
    \/ SplitReturn
    \/ StartPeriod
    \/ OptimizeStep
    \/ OptimizeReturn
    \/ Validate
    \/ Summarize

SpecWfo == InitWfo /\ [][NextWfo]_vars

----------------------------------------------------------------------------
(* Claims about the optimizer, checked under SpecWfo *)

MetricKeys == { "total_return", "sharpe_ratio", "max_drawdown", "win_rate" }

\* a run that had data and ended with an empty trade list
EndedWithoutTrades(outcome) ==
    ~outcome.raised /\ outcome.data /\ outcome.ntrades = 0

\* the test runs that returned, in order, from the history of the runs
TestRuns == SelectSeq(runlog, LAMBDA e : e.phase = "test" /\ ~e.outcome.raised)

\* the entries of wfo_results whose test run did not end without trades
WithTrades ==
    SelectSeq(wfo_results,
              LAMBDA r : \A i \in DOMAIN TestRuns :
                            (TestRuns[i].period = r.period) =>
                                ~EndedWithoutTrades(TestRuns[i].outcome))

C13_TrainRunWithoutTrades ==
    \E i \in DOMAIN train_results :
        /\ EndedWithoutTrades(train_results[i].outcome)
        /\ ~train_results[i].scored

\* the composite score of a full result
CompositeScore(value) ==
    RAdd(RAdd(RMul(Rat(2, 5), value.sharpe_ratio), RMul(Rat(3, 10), value.total_return)),
         RAdd(RMul(Rat(1, 5), RSub(RInt(1), [n |-> Abs(value.max_drawdown.n),
                                             d |-> value.max_drawdown.d])),
              RMul(Rat(1, 10), value.win_rate)))

\* the train run of the entry returned a result without error on enough trades
Eligible(entry) ==
    /\ ~entry.outcome.raised
    /\ entry.outcome.value # EmptyDict
    /\ "error" \notin DOMAIN entry.outcome.value
    /\ entry.outcome.value.total_trades >= MinTrades

\* C16: when _optimize_parameters returns, best_params is a combination whose
\* train run is eligible (no error, total_trades >= 10) and whose composite
\* score is not lower than that of any other eligible combination; when no
\* combination is eligible it is None.
C16_GuardedArgMax ==
    [][OptimizeReturn =>
         IF \E i \in DOMAIN train_results : Eligible(train_results[i])
         THEN \E i \in DOMAIN train_results :
                /\ Eligible(train_results[i])
                /\ best_params = train_results[i].params
                /\ \A j \in DOMAIN train_results :
                      Eligible(train_results[j]) =>
                          RLeq(CompositeScore(train_results[j].outcome.value),
                               CompositeScore(train_results[i].outcome.value))
         ELSE best_params = None]_vars

\* the optimization returned a combination although a combination with a
\* higher composite score on fewer than 10 trades, a failed one and a better
\* eligible one after a poorer one were among the runs
C16_Witness ==
    /\ pc = "validate"
    /\ \E i, j, k \in DOMAIN train_results :
        /\ ~Eligible(train_results[i])
        /\ "total_trades" \in DOMAIN train_results[i].outcome.value
        /\ train_results[i].outcome.value.total_trades < MinTrades
        /\ Eligible(train_results[j])
        /\ best_params = train_results[j].params
        /\ ~RLeq(CompositeScore(train_results[i].outcome.value),
                 CompositeScore(train_results[j].outcome.value))
        /\ train_results[k].outcome.raised

C16_NoneReached ==
    /\ pc = "periods"
    /\ Len(train_results) = Len(generate_param_combinations)
    /\ best_params = None

Last(seq) == seq[Len(seq)]

\* C17: the runs of run_wfo follow the protocol.  In the history of the runs
\* the periods come in order and the test run of a period is the last run of
\* the period; a test run is started only on the combination the optimization
\* of its period just returned, on the test window of that period; a period
\* whose optimization returns None gets no test run and no entry; the entries
\* of wfo_results are the test runs that returned; the summary is computed
\* once, after the last period, from the results of the test runs.
C17_WalkForwardProtocol ==
    /\ [](\A i, j \in DOMAIN runlog :
            i < j => /\ runlog[i].period <= runlog[j].period
                     /\ runlog[i].period = runlog[j].period =>
                            runlog[i].phase = "train")
    /\ [](/\ Len(wfo_results) = Len(TestRuns)
          /\ \A i \in DOMAIN wfo_results :
                /\ wfo_results[i].period = TestRuns[i].period
                /\ wfo_results[i].optimal_params = TestRuns[i].params
                /\ wfo_results[i].test_results = TestRuns[i].outcome.value)
    /\ [][(runlog' # runlog /\ Last(runlog').phase = "test") =>
            /\ pc = "validate"
            /\ best_params # None
            /\ Last(runlog').params = best_params
            /\ Last(runlog').period = period_i
            /\ Last(runlog').window = << periods[period_i][3], periods[period_i][4] >>
            /\ Len(SelectSeq(runlog, LAMBDA e : e.period = period_i /\ e.phase = "train"))
                 = Len(generate_param_combinations)]_vars
    /\ [][(runlog' # runlog /\ Last(runlog').phase = "train") =>
            /\ Last(runlog').period = period_i
            /\ Last(runlog').window = << periods[period_i][1], periods[period_i][2] >>
            /\ \A i \in DOMAIN runlog : runlog[i].phase = "test" =>
                                           runlog[i].period < period_i]_vars
    /\ [][(OptimizeReturn /\ best_params = None) =>
            /\ pc' = "periods"
            /\ runlog' = runlog
            /\ wfo_results' = wfo_results]_vars
    /\ [][summary' # summary =>
            /\ summary = NotReturned
            /\ pc = "periods"
            /\ period_i = Len(periods)
            /\ summary' = summarize_wfo_results(
                             [i \in DOMAIN TestRuns |->
                                [test_results |-> TestRuns[i].outcome.value]])]_vars

\* two periods were processed: the first got no combination and no test run,
\* the second was tested, and the summary was computed
C17_Witness ==
    /\ pc = "done"
    /\ Len(periods) = 2
    /\ Len(wfo_results) = 1
    /\ wfo_results[1].period = 2
    /\ "error" \notin DOMAIN summary
    /\ Len(SelectSeq(runlog, LAMBDA e : e.phase = "train"))
         = 2 * Len(generate_param_combinations)

----------------------------------------------------------------------------
(* The ledger called with arguments of any sign.  Portfolio checks none of  *)
(* its arguments; the only failures are the divisions by zero of Python.     *)

AnyQtys == -1..MaxQty
AnyPrices == { 0 } \cup LedgerPrices

\* add_position raises ZeroDivisionError in avg_price, before any assignment
add_position_raises(pf, symbol, quantity) ==
    /\ symbol \in DOMAIN pf.positions
    /\ pf.positions[symbol].quantity + quantity = 0

\* close_position raises ZeroDivisionError in profit_loss_pct, while the Trade
\* is built and before any assignment
close_position_raises(pf, symbol) ==
    /\ symbol \in DOMAIN pf.positions
    /\ pf.positions[symbol].price.n = 0

AddPositionAny ==
    /\ ncalls < MaxCalls
    /\ \E symbol \in LedgerSymbols, quantity \in AnyQtys, price \in AnyPrices :
        IF add_position_raises(portfolio, symbol, quantity)
        THEN /\ last' = [op |-> "add", symbol |-> symbol, quantity |-> quantity,
                         price |-> price, ret |-> << "ZeroDivisionError" >>]
             /\ UNCHANGED << portfolio, sumOpens, lots >>
        ELSE /\ portfolio' = add_position(portfolio, symbol, quantity, price,
                                          ncalls + 1, "swing_trading", "manual")
             /\ last' = [op |-> "add", symbol |-> symbol, quantity |-> quantity,
                         price |-> price, ret |-> None]
             /\ sumOpens' = sumOpens + quantity * price
             /\ lots' = LotsAfterAdd(symbol, quantity, price)
    /\ ncalls' = ncalls + 1
    /\ UNCHANGED << engineVars, result, parVars, splitVars, wfoVars >>

ClosePositionAny ==
    /\ ncalls < MaxCalls
    /\ \E symbol \in LedgerSymbols, quantity \in Qtys, price \in LedgerPrices :
        IF close_position_raises(portfolio, symbol)
        THEN /\ last' = [op |-> "close", symbol |-> symbol, quantity |-> quantity,
                         price |-> price, ret |-> << "ZeroDivisionError" >>]
             /\ UNCHANGED << portfolio, lots >>
        ELSE /\ portfolio' = close_position(portfolio, symbol, quantity, price,
                                            ncalls + 1, "manual")
             /\ last' = [op |-> "close", symbol |-> symbol, quantity |-> quantity,
                         price |-> price,
                         ret |-> close_result(portfolio, symbol, quantity, price,
                                              ncalls + 1, "manual")]
             /\ lots' = LotsAfterClose(symbol, quantity)
    /\ ncalls' = ncalls + 1
    /\ UNCHANGED << sumOpens, engineVars, result, parVars, splitVars, wfoVars >>

NextAny == AddPositionAny \/ ClosePositionAny \/ UpdateEquityCurve

SpecAny == Init /\ [][NextAny]_vars

\* C22: an add_position call with quantity <= 0 or price <= 0 creates and
\* modifies no position and leaves cash as it was.
C22_RejectsNonPositive ==
    [][(last'.op = "add" /\ (last'.quantity <= 0 \/ last'.price <= 0)) =>
          /\ portfolio'.positions = portfolio.positions
          /\ portfolio'.cash = portfolio.cash]_vars

----------------------------------------------------------------------------
(* A sequential swing_trading run followed over more dates.  Input          *)
(* restriction: of the symbols of all_data only the first has rows on the    *)
(* dates of the timeline; its row is one of the rows of the sequential model *)
(* or one of two rows at a price at which the risk budget buys one share.    *)

MaxSwingDates == 3      \* timeline dates of such a run
OneSharePrice == 100000 \* int(risk_amount / price) = 1 at INITIAL_CAPITAL
OneShareUp == 105000    \* 5% above OneSharePrice

OneShareRow == [present |-> TRUE, close |-> OneSharePrice, entry |-> TRUE]
OneShareUpRow == [present |-> TRUE, close |-> OneShareUp, entry |-> FALSE]
\* the one-share prices are not met while a position bought at another price
\* is open
SwingRows(pf) ==
    IF \A s \in DOMAIN pf.positions : pf.positions[s].price = RInt(OneSharePrice)
    THEN { Unread, OneShareRow, OneShareUpRow }
    ELSE { Unread }

\* _execute_backtest: the loop takes the next date; _process_date begins
NextDateSwing ==
    /\ pc \in { "start", "date" }
    /\ ndates < MaxSwingDates
    /\ \E gap \in Gaps : today' = today + gap
    /\ \E r \in SwingRows(portfolio) :
        rows' = [s \in Symbols |-> IF s = SymbolList[1] THEN r ELSE NoRow]
    /\ pc' = ProcessDateOrder[1]
    /\ idx' = 0
    /\ UNCHANGED << ledgerVars, strategy, ndates, latest, exit_keys, runs,
                    fresh_at_start >>
    /\ UNCHANGED << result, parVars, splitVars, wfoVars >>

NextSwing ==
    \/ RunBacktest
    \/ NextDateSwing
    \/ ExitStart
    \/ ExitStep
    \/ EntryGuard
    \/ EntryStep
    \/ UpdateEquity
    \/ FinishRun

SpecSwing == Init /\ [][NextSwing]_vars

\* the exit pass is about to handle a held symbol
ExitStepOn(symbol) ==
    /\ pc = "exit"
    /\ idx \in 1..Len(exit_keys)
    /\ exit_keys[idx] = symbol
    /\ symbol \in DOMAIN portfolio.positions
    /\ rows'[symbol].present
    /\ idx' # idx

\* the answer of the exit predicate in the step that was just taken
DecisionOn(symbol) ==
    exit_decision(portfolio.positions[symbol], latest'[symbol], strategy,
                  rows'[symbol].close, today)

\* C23: every entry of the open-position map has a quantity > 0, and a
\* partial exit asked of a position of one share changes nothing.
C23_PositiveQuantities ==
    /\ [](\A s \in DOMAIN portfolio.positions : portfolio.positions[s].quantity > 0)
    /\ [][\A s \in Symbols :
            (/\ ExitStepOn(s)
             /\ portfolio.positions[s].quantity = 1
             /\ ~DecisionOn(s).exit
             /\ DecisionOn(s).partial_exit) => portfolio' = portfolio]_vars

C23_Witness ==
    /\ pc \in { "entry", "equity" }
    /\ "A" \in DOMAIN portfolio.positions
    /\ portfolio.positions["A"].quantity = 1
    /\ portfolio.positions["A"].entry_date < today
    /\ rows["A"] = OneShareUpRow
    /\ portfolio.trades = << >>

\* C30: no position is reduced by two partial exits: no two trades with
\* reason "partial_profit" come from the same position (the same symbol and
\* the same entry date).
C30_PartialExitOnce ==
    \A i, j \in DOMAIN portfolio.trades :
        (/\ i < j
         /\ portfolio.trades[i].exit_reason = "partial_profit"
         /\ portfolio.trades[j].exit_reason = "partial_profit"
         /\ portfolio.trades[i].symbol = portfolio.trades[j].symbol)
        => portfolio.trades[i].entry_date # portfolio.trades[j].entry_date

\* the exit reasons check_exit_conditions takes from data.iloc[-1]
LatestReasons == { "rsi_overbought", "below_ma25", "below_ma200" }

\* C26: no exit is decided from a row dated after the date of the exit: when
\* the series of a symbol has a row on a later date of the same run (so that
\* data.iloc[-1] is dated after the exit), none of the symbol's trades closed
\* before that date was closed for a reason read from data.iloc[-1].
C26_NoLookAhead ==
    runs <= 1 =>
        \A i \in DOMAIN portfolio.trades :
            LET t == portfolio.trades[i]
            IN  (rows[t.symbol].present /\ t.exit_date < today) =>
                    t.exit_reason \notin LatestReasons

----------------------------------------------------------------------------
(* _calculate_position_size as a function of the ledger and the price: the  *)
(* ledger is a new Portfolio of 1,000,000, or one that has bought a number   *)
(* of shares of the first symbol at 100; the size is asked for another       *)
(* symbol.                                                                   *)

SizingHeld == { 0, 1000, 2000, 3000, 4000, 5000 }
SizingPrices == { 50, 100, 150, 200, 1000, 10000, 20000, 1000000 }

SizingLedger(held) ==
    IF held = 0
    THEN NewPortfolio(1000000)
    ELSE add_position(NewPortfolio(1000000), SymbolList[1], held, 100, 1,
                      "swing_trading", "entry_conditions_met")

InitSizing ==
    /\ \E held \in SizingHeld : portfolio = SizingLedger(held)
    /\ ncalls = 0
    /\ last = NoCall
    /\ sumOpens = 0
    /\ lots = [s \in LedgerSymbols |-> NoLot]
    /\ strategy \in Strategies
    /\ pc = "idle"
    /\ today = 0
    /\ ndates = 0
    /\ rows = [s \in Symbols |-> Unread]
    /\ latest = [s \in Symbols |-> LatestUnread]
    /\ exit_keys = << >>
    /\ idx = 0
    /\ runs = 0
    /\ fresh_at_start = TRUE
    /\ result = NotReturned
    /\ ParallelIdle
    /\ OptimizerIdle

\* one call of _calculate_position_size(symbol, price)
CalculatePositionSize ==
    /\ ncalls = 0
    /\ \E price \in SizingPrices :
        last' = [op |-> "size", symbol |-> SymbolList[2], quantity |-> 0,
                 price |-> price,
                 ret |-> << calculate_position_size(portfolio, strategy, price) >>]
    /\ ncalls' = 1
    /\ UNCHANGED << portfolio, sumOpens, lots, engineVars, result, parVars,
                    splitVars, wfoVars >>

NextSizing == CalculatePositionSize

SpecSizing == InitSizing /\ [][NextSizing]_vars

\* C25: for a ledger worth 1,000,000 of which 500,000 is cash, with
\* risk_per_trade 0.015 and max_position_size 0.25, the size at price 100
\* is 150.
C25_SizingExample ==
    (/\ last.op = "size"
     /\ TRADING_RULES(strategy).risk_per_trade = Rat(15, 1000)
     /\ TRADING_RULES(strategy).max_position_size = Rat(25, 100)
     /\ portfolio.cash = 500000
     /\ get_total_value(portfolio, [s \in DOMAIN portfolio.positions |-> 100]) = 1000000
     /\ last.price = 100)
    => last.ret = << 150 >>

----------------------------------------------------------------------------
(* Claims about the rule set of the optimizer *)

\* C28: whatever combinations have been evaluated, self.rules and the
\* TRADING_RULES entry hold the values of src/config.py, nested
\* entry_conditions and exit_conditions included.
C28_BaseRulesUntouched ==
    trading_rules = TRADING_RULES(strategy)

----------------------------------------------------------------------------
(* _optimize_parameters on data that do not change between the runs.  What   *)
(* engine.run_backtest does is then a function of what the engine reads of   *)
(* its rules: BacktestEngine.__init__ takes max_positions, risk_per_trade    *)
(* and max_holding_days from TRADING_RULES[strategy]; of engine.rules, which *)
(* the optimizer replaces after the construction, run_backtest reads         *)
(* "timeframe" and _calculate_position_size reads "max_position_size".       *)
(* check_entry_conditions and check_exit_conditions take no rules.           *)

\* variant: the exit thresholds are read from engine.rules
engine_reads_exit_rules(global_rules, custom_rules) ==
    [ max_positions     |-> global_rules.max_positions,
      risk_per_trade    |-> global_rules.risk_per_trade,
      max_holding_days  |-> global_rules.max_holding_days,
      timeframe         |-> custom_rules.timeframe,
      max_position_size |-> custom_rules.max_position_size,
      profit_target     |-> custom_rules.exit_conditions.profit_target,
      stop_loss         |-> custom_rules.exit_conditions.stop_loss ]

\* the values of the rules a run of the engine depends on
engine_reads(global_rules, custom_rules) ==
    [ max_positions     |-> global_rules.max_positions,
      risk_per_trade    |-> global_rules.risk_per_trade,
      max_holding_days  |-> global_rules.max_holding_days,
      timeframe         |-> custom_rules.timeframe,
      max_position_size |-> custom_rules.max_position_size ]

\* _run_backtest_with_params: what the engine of the run reads
RunReads(params) ==
    engine_reads(rules_after_custom(trading_rules, strategy, params),
                 create_custom_rules(trading_rules, strategy, params))

\* the outcomes of a run with params: the outcome of an earlier run of this
\* optimization whose engine read the same values, any outcome when there
\* was none
FixedOutcomes(params) ==
    LET same == { j \in DOMAIN train_results :
                    RunReads(train_results[j].params) = RunReads(params) }
    IN  IF same = {}
        THEN RunOutcomes
        ELSE { train_results[j].outcome : j \in same }

OptWindows == { MakePeriod(s, MaxTrain, MaxTest) : s \in 0..2 }

InitOpt ==
    /\ portfolio = NewPortfolio(INITIAL_CAPITAL)
    /\ ncalls = 0
    /\ last = NoCall
    /\ sumOpens = 0
    /\ lots = [s \in LedgerSymbols |-> NoLot]
    /\ strategy \in Strategies
    /\ pc = "idle"
    /\ today = 0
    /\ ndates = 0
    /\ rows = [s \in Symbols |-> Unread]
    /\ latest = [s \in Symbols |-> LatestUnread]
    /\ exit_keys = << >>
    /\ idx = 0
    /\ runs = 0
    /\ fresh_at_start = TRUE
    /\ result = NotReturned
    /\ ParallelIdle
    /\ OptimizerIdle

\* _optimize_parameters(symbols, start_date, end_date) is called
OptimizeCall ==
    /\ pc = "idle"
    /\ \E period \in OptWindows : periods' = << period >>
    /\ period_i' = 1
    /\ combo_i' = 1
    /\ best_params' = None
    /\ best_score' = MinusInf
    /\ train_results' = << >>
    /\ pc' = "optimize"
    /\ UNCHANGED << ledgerVars, strategy, seqVars, result, parVars, split_args,
                    current_start, wfo_results, summary, runlog, trading_rules >>

\* one iteration of the loop over the combinations, on unchanging data
OptimizeStepFixed ==
    /\ pc = "optimize"
    /\ combo_i \in DOMAIN generate_param_combinations
    /\ \E outcome \in FixedOutcomes(generate_param_combinations[combo_i]) :
        OptimizeWith(outcome)
    /\ combo_i' = combo_i + 1
    /\ UNCHANGED << ledgerVars, strategy, pc, seqVars, result, parVars, splitVars,
                    period_i, wfo_results, summary >>

NextOpt ==
    \/ OptimizeCall
    \/ OptimizeStepFixed
    \/ OptimizeReturn

SpecOpt == InitOpt /\ [][NextOpt]_vars

\* a run of the optimization passed the guard: it was scored, above -inf
PassedGuard(run) ==
    /\ run.scored
    /\ calculate_optimization_score(run.outcome.value) # MinusInf

\* C27: on unchanging data every combination of the grid ends in the same
\* outcome, and _optimize_parameters returns the first combination of the
\* product when a combination passes the guard (None when none does).
C27_ParamsIrrelevant ==
    /\ \A i, j \in DOMAIN train_results :
          train_results[i].outcome = train_results[j].outcome
    /\ pc \in { "validate", "periods" } =>
          best_params = IF \E i \in DOMAIN train_results : PassedGuard(train_results[i])
                        THEN generate_param_combinations[1]
                        ELSE None

C27_Witness ==
    /\ pc = "validate"
    /\ Len(train_results) = Len(generate_param_combinations)
    /\ PassedGuard(train_results[Len(train_results)])
    /\ best_params = generate_param_combinations[1]

----------------------------------------------------------------------------
(* Claims about the reconciliation replay, checked under SpecPar *)

\* the sum of profit_loss over a trade list
RECURSIVE TradesPL(_)
TradesPL(trades) ==
    IF trades = << >> THEN RInt(0)
    ELSE RAdd(Head(trades).profit_loss, TradesPL(Tail(trades)))

\* the cash the trades leave on a day: bought on or before it at the entry
\* price, sold on or before it at the exit price
RECURSIVE CashOn(_, _)
CashOn(trades, day) ==
    IF trades = << >> THEN 0
    ELSE LET t == Head(trades)
         IN  (IF t.entry_date <= day THEN -(t.quantity * t.entry_price.n) ELSE 0)
             + (IF t.exit_date <= day THEN t.quantity * t.exit_price ELSE 0)
             + CashOn(Tail(trades), day)

\* the value on date k of the trades open on it whose symbol has a row on it
RECURSIVE OpenValueOn(_, _, _)
OpenValueOn(trades, data, k) ==
    IF trades = << >> THEN 0
    ELSE LET t == Head(trades)
         IN  (IF /\ t.entry_date <= ParDay(k)
                 /\ ParDay(k) < t.exit_date
                 /\ data[t.symbol][k].present
              THEN t.quantity * data[t.symbol][k].close
              ELSE 0)
             + OpenValueOn(Tail(trades), data, k)

\* the index in the equity curve of the point of date k
PointOf(k) == 1 + Cardinality({ j \in AllDates(processed_data) : j <= k })

OnTimeline(day) == \E k \in AllDates(processed_data) : ParDay(k) = day

Reconciled == pc = "done" /\ "error" \notin DOMAIN result

\* C29: after the reconciliation, with every merged trade entered and left
\* on a date of the timeline, the replay ends without a position, the last
\* point of the equity curve is initial_capital plus the profit_loss of all
\* merged trades, and the point of every date is the cash the trades leave
\* on it plus quantity * close over the trades open on it whose symbol has a
\* row on it.
C29_ReplayConsistent ==
    (/\ Reconciled
     /\ \A i \in DOMAIN portfolio.trades :
          /\ OnTimeline(portfolio.trades[i].entry_date)
          /\ OnTimeline(portfolio.trades[i].exit_date))
    => /\ ReplayState(processed_data, portfolio.trades, 1,
                      [cash |-> portfolio.initial_capital,
                       positions |-> NoPositions]).positions = NoPositions
       /\ RInt(portfolio.equity_curve[Len(portfolio.equity_curve)])
            = RAdd(RInt(portfolio.initial_capital), TradesPL(portfolio.trades))
       /\ Len(portfolio.equity_curve) = 1 + Cardinality(AllDates(processed_data))
       /\ \A k \in AllDates(processed_data) :
            portfolio.equity_curve[PointOf(k)]
              = portfolio.initial_capital + CashOn(portfolio.trades, ParDay(k))
                + OpenValueOn(portfolio.trades, processed_data, k)

\* two symbols traded, one position carried over a date and valued on it,
\* and the run ended with a gain or a loss
C29_Witness ==
    /\ Reconciled
    /\ \E i, j \in DOMAIN portfolio.trades :
          portfolio.trades[i].symbol # portfolio.trades[j].symbol
    /\ \E k \in AllDates(processed_data) :
          OpenValueOn(portfolio.trades, processed_data, k) > 0
    /\ TradesPL(portfolio.trades) # RInt(0)
====
